---- MODULE Spec2Model ----
(***************************************************************************)
(* Dashboard de Gestao APS (src/app.py): the data reconciliation and       *)
(* metrics engine of class DashboardAPS, as a state machine.  One script   *)
(* run of the Streamlit application is DashboardAPS() followed by run():   *)
(* render_controls (upload routing, municipality parameters, filters),     *)
(* _preparar_dados_para_analise (team classifier) and one report view.     *)
(***************************************************************************)
EXTENDS Integers, Sequences, FiniteSets, TLC

(***************************************************************************)
(* Text.  A Python str is a sequence of tokens: the blank " ", the hyphen  *)
(* "-", and words (maximal runs of other characters).  Concatenation is    *)
(* \o; the team separator ' - ' is the three tokens blank, hyphen, blank.  *)
(***************************************************************************)
SEP == <<" ", "-", " ">>

RECURSIVE LStrip(_)
LStrip(s) ==
    IF s # <<>> /\ Head(s) = " " THEN LStrip(Tail(s)) ELSE s

RECURSIVE RStrip(_)
RStrip(s) ==
    IF s # <<>> /\ s[Len(s)] = " " THEN RStrip(SubSeq(s, 1, Len(s) - 1)) ELSE s

\* str.strip(): leading and trailing blanks removed.
Strip(s) == RStrip(LStrip(s))

\* str.split(' - '): left-to-right, non-overlapping; cur is the piece being read.
RECURSIVE SplitFrom(_, _)
SplitFrom(s, cur) ==
    IF s = <<>> THEN <<cur>>
    ELSE IF Len(s) >= Len(SEP) /\ SubSeq(s, 1, Len(SEP)) = SEP
         THEN <<cur>> \o SplitFrom(SubSeq(s, Len(SEP) + 1, Len(s)), <<>>)
         ELSE SplitFrom(Tail(s), Append(cur, Head(s)))

Split(s) == SplitFrom(s, <<>>)

\* str.upper() on the words the model's inputs use; every other token is
\* already in upper case (or has no case) and maps to itself.
UpperTok(t) ==
    CASE t = "com" -> "COM"
      [] t = "cpf" -> "CPF"
      [] t = "sem" -> "SEM"
      [] t = "Até" -> "ATÉ"
      [] t = "meses" -> "MESES"
      [] t = "ubs" -> "UBS"
      [] OTHER -> t

Upper(s) == [i \in 1..Len(s) |-> UpperTok(s[i])]

(***************************************************************************)
(* Cells of a spreadsheet: a string, a number, or a missing value (NaN).   *)
(***************************************************************************)
Str(s) == [str |-> s]
Num(k) == [num |-> k]
NaN == [nan |-> TRUE]
IsStr(c) == DOMAIN c = {"str"}
IsNum(c) == DOMAIN c = {"num"}
IsNaN(c) == DOMAIN c = {"nan"}
\* Python's None for an attribute that otherwise holds a table or a tuple.
None == [none |-> TRUE]

\* Series.astype(str) on a non-missing cell.
AsTypeStr(c) == IF IsStr(c) THEN c.str ELSE <<ToString(c.num)>>

\* Series.str.<method>: missing for every element that is not a str.
StrMethod(c, Op(_)) == IF IsStr(c) THEN Str(Op(c.str)) ELSE NaN

\* Series + str and Series + Series on object columns: NaN propagates.
Concat(a, b) == IF IsStr(a) /\ IsStr(b) THEN Str(a.str \o b.str) ELSE NaN

(***************************************************************************)
(* Constants of section 1 of the source.                                   *)
(***************************************************************************)
COL_STATUS_DOC == "STATUS DOCUMENTO"
COL_TEMPO_SEM_ATUALIZAR == "TEMPO SEM ATUALIZAR"
COL_UNIDADE == "UNIDADE DE SAÚDE"
COL_NOME_EQUIPE == "NOME EQUIPE"
COL_INE == "INE"
COL_CIDADAO == "CIDADÃO"
COL_EQUIPE_COMPLETA == "EQUIPE_COMPLETA"
COL_FAMILIA_VINCULADA == "TEM FAMÍLIA VÍNCULADA?"
DOM_COL_UNIDADE == "Estabelecimento"

\* The three values of 'Status' (the source prefixes each with an emoji).
DENTRO == "Dentro do Parâmetro"
ACIMA_PARAMETRO == "Acima do Parâmetro"
ACIMA_LIMITE == "ACIMA DO LIMITE MÁXIMO"

ordem_tempo ==
    << <<"ATÉ", " ", "4", " ", "MESES">>, <<"5", " ", "A", " ", "12", " ", "MESES">>,
       <<"13", " ", "A", " ", "24", " ", "MESES">>,
       <<"MAIS", " ", "DE", " ", "2", " ", "ANOS">> >>

ordem_cpf == << <<"COM", " ", "CPF">>, <<"SEM", " ", "CPF">> >>

(***************************************************************************)
(* The parameter registry, carregar_parametros.                            *)
(***************************************************************************)
PARAMETROS_POR_MUNICIPIO ==
    "ALHANDRA-PB" :> [parametro_esf |-> 2500, limite_esf |-> 3750,
        eap_por_ine |->
            (<<"0009999">> :> [tipo |-> "30", parametro |-> 1875, limite_maximo |-> 2813])] @@
    "MACAÍBA-RN" :> [parametro_esf |-> 2750, limite_esf |-> 4125,
        eap_por_ine |->
            (<<"0001234">> :> [tipo |-> "20", parametro |-> 1375, limite_maximo |-> 2063]
            @@ <<"0005678">> :> [tipo |-> "30", parametro |-> 1875, limite_maximo |-> 2813])] @@
    "VALENÇA-RJ" :> [parametro_esf |-> 2750, limite_esf |-> 4125,
        eap_por_ine |->
            (<<"0004321">> :> [tipo |-> "20", parametro |-> 1375, limite_maximo |-> 2063])] @@
    "ÁGUA PRETA-PE" :> [parametro_esf |-> 2500, limite_esf |-> 3750] @@
    "ÁGUAS BELAS-PE" :> [parametro_esf |-> 2500, limite_esf |-> 3750] @@
    "ALTO DO RODRIGUES-RN" :> [parametro_esf |-> 2000, limite_esf |-> 3000] @@
    "APODI-RN" :> [parametro_esf |-> 2500, limite_esf |-> 3750] @@
    "ARAPONGA-MG" :> [parametro_esf |-> 2000, limite_esf |-> 3000] @@
    "AREIA-PB" :> [parametro_esf |-> 2500, limite_esf |-> 3750] @@
    "AÇU-RN" :> [parametro_esf |-> 2750, limite_esf |-> 4125] @@
    "BRUMADO-BA" :> [parametro_esf |-> 2750, limite_esf |-> 4125] @@
    "CAAPORÃ-PB" :> [parametro_esf |-> 2500, limite_esf |-> 3750] @@
    "CALDAS BRANDÃO-PB" :> [parametro_esf |-> 2000, limite_esf |-> 3000] @@
    "CANAÃ-MG" :> [parametro_esf |-> 2000, limite_esf |-> 3000] @@
    "CARNAUBAIS-RN" :> [parametro_esf |-> 2000, limite_esf |-> 3000] @@
    "CONDE-PB" :> [parametro_esf |-> 2500, limite_esf |-> 3750] @@
    "CORDEIRO-RJ" :> [parametro_esf |-> 2500, limite_esf |-> 3750] @@
    "FERNANDO PEDROZA-RN" :> [parametro_esf |-> 2000, limite_esf |-> 3000] @@
    "GROSSOS-RN" :> [parametro_esf |-> 2000, limite_esf |-> 3000] @@
    "GUARABIRA-PB" :> [parametro_esf |-> 2750, limite_esf |-> 4125] @@
    "ITABAIANA-PB" :> [parametro_esf |-> 2500, limite_esf |-> 3750] @@
    "ITAPOROROCA-PB" :> [parametro_esf |-> 2000, limite_esf |-> 3000] @@
    "ITATUBA-PB" :> [parametro_esf |-> 2000, limite_esf |-> 3000] @@
    "MOGEIRO-PB" :> [parametro_esf |-> 2000, limite_esf |-> 3000] @@
    "PATU-RN" :> [parametro_esf |-> 2000, limite_esf |-> 3000] @@
    "PAULA CÂNDIDO-MG" :> [parametro_esf |-> 2000, limite_esf |-> 3000] @@
    "PEDRO VELHO-RN" :> [parametro_esf |-> 2000, limite_esf |-> 3000] @@
    "PENDÊNCIAS-RN" :> [parametro_esf |-> 2000, limite_esf |-> 3000] @@
    "POÇO BRANCO-RN" :> [parametro_esf |-> 2000, limite_esf |-> 3000] @@
    "SANTA RITA-PB" :> [parametro_esf |-> 3000, limite_esf |-> 4500] @@
    "SÃO JOSÉ DE UBÁ-RJ" :> [parametro_esf |-> 2000, limite_esf |-> 3000] @@
    "SÃO MIGUEL DO ANTA-MG" :> [parametro_esf |-> 2000, limite_esf |-> 3000] @@
    "TIBAU-RN" :> [parametro_esf |-> 2000, limite_esf |-> 3000] @@
    "VIÇOSA-MG" :> [parametro_esf |-> 2750, limite_esf |-> 4125] @@
    "VIÇOSA DO CEARÁ-CE" :> [parametro_esf |-> 2750, limite_esf |-> 4125]

\* The keys of the dict in insertion order (the order of .items()).
ChavesRegistro ==
    <<"ALHANDRA-PB", "MACAÍBA-RN", "VALENÇA-RJ",
      "ÁGUA PRETA-PE", "ÁGUAS BELAS-PE", "ALTO DO RODRIGUES-RN",
      "APODI-RN", "ARAPONGA-MG", "AREIA-PB",
      "AÇU-RN", "BRUMADO-BA", "CAAPORÃ-PB",
      "CALDAS BRANDÃO-PB", "CANAÃ-MG", "CARNAUBAIS-RN",
      "CONDE-PB", "CORDEIRO-RJ", "FERNANDO PEDROZA-RN",
      "GROSSOS-RN", "GUARABIRA-PB", "ITABAIANA-PB",
      "ITAPOROROCA-PB", "ITATUBA-PB", "MOGEIRO-PB",
      "PATU-RN", "PAULA CÂNDIDO-MG", "PEDRO VELHO-RN",
      "PENDÊNCIAS-RN", "POÇO BRANCO-RN", "SANTA RITA-PB",
      "SÃO JOSÉ DE UBÁ-RJ", "SÃO MIGUEL DO ANTA-MG", "TIBAU-RN",
      "VIÇOSA-MG", "VIÇOSA DO CEARÁ-CE">>

\* municipio_uf.rsplit('-', 1) of each key.
Rsplit ==
    "ALHANDRA-PB" :> <<"ALHANDRA", "PB">> @@
    "MACAÍBA-RN" :> <<"MACAÍBA", "RN">> @@
    "VALENÇA-RJ" :> <<"VALENÇA", "RJ">> @@
    "ÁGUA PRETA-PE" :> <<"ÁGUA PRETA", "PE">> @@
    "ÁGUAS BELAS-PE" :> <<"ÁGUAS BELAS", "PE">> @@
    "ALTO DO RODRIGUES-RN" :> <<"ALTO DO RODRIGUES", "RN">> @@
    "APODI-RN" :> <<"APODI", "RN">> @@
    "ARAPONGA-MG" :> <<"ARAPONGA", "MG">> @@
    "AREIA-PB" :> <<"AREIA", "PB">> @@
    "AÇU-RN" :> <<"AÇU", "RN">> @@
    "BRUMADO-BA" :> <<"BRUMADO", "BA">> @@
    "CAAPORÃ-PB" :> <<"CAAPORÃ", "PB">> @@
    "CALDAS BRANDÃO-PB" :> <<"CALDAS BRANDÃO", "PB">> @@
    "CANAÃ-MG" :> <<"CANAÃ", "MG">> @@
    "CARNAUBAIS-RN" :> <<"CARNAUBAIS", "RN">> @@
    "CONDE-PB" :> <<"CONDE", "PB">> @@
    "CORDEIRO-RJ" :> <<"CORDEIRO", "RJ">> @@
    "FERNANDO PEDROZA-RN" :> <<"FERNANDO PEDROZA", "RN">> @@
    "GROSSOS-RN" :> <<"GROSSOS", "RN">> @@
    "GUARABIRA-PB" :> <<"GUARABIRA", "PB">> @@
    "ITABAIANA-PB" :> <<"ITABAIANA", "PB">> @@
    "ITAPOROROCA-PB" :> <<"ITAPOROROCA", "PB">> @@
    "ITATUBA-PB" :> <<"ITATUBA", "PB">> @@
    "MOGEIRO-PB" :> <<"MOGEIRO", "PB">> @@
    "PATU-RN" :> <<"PATU", "RN">> @@
    "PAULA CÂNDIDO-MG" :> <<"PAULA CÂNDIDO", "MG">> @@
    "PEDRO VELHO-RN" :> <<"PEDRO VELHO", "RN">> @@
    "PENDÊNCIAS-RN" :> <<"PENDÊNCIAS", "RN">> @@
    "POÇO BRANCO-RN" :> <<"POÇO BRANCO", "RN">> @@
    "SANTA RITA-PB" :> <<"SANTA RITA", "PB">> @@
    "SÃO JOSÉ DE UBÁ-RJ" :> <<"SÃO JOSÉ DE UBÁ", "RJ">> @@
    "SÃO MIGUEL DO ANTA-MG" :> <<"SÃO MIGUEL DO ANTA", "MG">> @@
    "TIBAU-RN" :> <<"TIBAU", "RN">> @@
    "VIÇOSA-MG" :> <<"VIÇOSA", "MG">> @@
    "VIÇOSA DO CEARÁ-CE" :> <<"VIÇOSA DO CEARÁ", "CE">>

\* The rank of each name under Python's str order (code points), as sorted() uses.
OrdemCodePoint ==
    "ALHANDRA" :> 1 @@
    "MACAÍBA" :> 20 @@
    "VALENÇA" :> 31 @@
    "ÁGUA PRETA" :> 34 @@
    "ÁGUAS BELAS" :> 35 @@
    "ALTO DO RODRIGUES" :> 2 @@
    "APODI" :> 3 @@
    "ARAPONGA" :> 4 @@
    "AREIA" :> 5 @@
    "AÇU" :> 6 @@
    "BRUMADO" :> 7 @@
    "CAAPORÃ" :> 8 @@
    "CALDAS BRANDÃO" :> 9 @@
    "CANAÃ" :> 10 @@
    "CARNAUBAIS" :> 11 @@
    "CONDE" :> 12 @@
    "CORDEIRO" :> 13 @@
    "FERNANDO PEDROZA" :> 14 @@
    "GROSSOS" :> 15 @@
    "GUARABIRA" :> 16 @@
    "ITABAIANA" :> 17 @@
    "ITAPOROROCA" :> 18 @@
    "ITATUBA" :> 19 @@
    "MOGEIRO" :> 21 @@
    "PATU" :> 22 @@
    "PAULA CÂNDIDO" :> 23 @@
    "PEDRO VELHO" :> 24 @@
    "PENDÊNCIAS" :> 25 @@
    "POÇO BRANCO" :> 26 @@
    "SANTA RITA" :> 27 @@
    "SÃO JOSÉ DE UBÁ" :> 28 @@
    "SÃO MIGUEL DO ANTA" :> 29 @@
    "TIBAU" :> 30 @@
    "VIÇOSA" :> 32 @@
    "VIÇOSA DO CEARÁ" :> 33

\* _normalize_text on the registry names and on the file-name tokens of the model:
\* NFKD, accents dropped, upper case, stripped.
TabelaNormalize ==
    "ALHANDRA" :> "ALHANDRA" @@
    "MACAÍBA" :> "MACAIBA" @@
    "VALENÇA" :> "VALENCA" @@
    "ÁGUA PRETA" :> "AGUA PRETA" @@
    "ÁGUAS BELAS" :> "AGUAS BELAS" @@
    "ALTO DO RODRIGUES" :> "ALTO DO RODRIGUES" @@
    "APODI" :> "APODI" @@
    "ARAPONGA" :> "ARAPONGA" @@
    "AREIA" :> "AREIA" @@
    "AÇU" :> "ACU" @@
    "BRUMADO" :> "BRUMADO" @@
    "CAAPORÃ" :> "CAAPORA" @@
    "CALDAS BRANDÃO" :> "CALDAS BRANDAO" @@
    "CANAÃ" :> "CANAA" @@
    "CARNAUBAIS" :> "CARNAUBAIS" @@
    "CONDE" :> "CONDE" @@
    "CORDEIRO" :> "CORDEIRO" @@
    "FERNANDO PEDROZA" :> "FERNANDO PEDROZA" @@
    "GROSSOS" :> "GROSSOS" @@
    "GUARABIRA" :> "GUARABIRA" @@
    "ITABAIANA" :> "ITABAIANA" @@
    "ITAPOROROCA" :> "ITAPOROROCA" @@
    "ITATUBA" :> "ITATUBA" @@
    "MOGEIRO" :> "MOGEIRO" @@
    "PATU" :> "PATU" @@
    "PAULA CÂNDIDO" :> "PAULA CANDIDO" @@
    "PEDRO VELHO" :> "PEDRO VELHO" @@
    "PENDÊNCIAS" :> "PENDENCIAS" @@
    "POÇO BRANCO" :> "POCO BRANCO" @@
    "SANTA RITA" :> "SANTA RITA" @@
    "SÃO JOSÉ DE UBÁ" :> "SAO JOSE DE UBA" @@
    "SÃO MIGUEL DO ANTA" :> "SAO MIGUEL DO ANTA" @@
    "TIBAU" :> "TIBAU" @@
    "VIÇOSA" :> "VICOSA" @@
    "VIÇOSA DO CEARÁ" :> "VICOSA DO CEARA" @@
    "macaíba" :> "MACAIBA" @@
    "Macaíba " :> "MACAIBA" @@
    "valença" :> "VALENCA" @@
    "santa rita" :> "SANTA RITA" @@
    "relatorio" :> "RELATORIO" @@
    "cidadaos" :> "CIDADAOS"

\* The rows of the DataFrame carregar_parametros returns, in registry order.
carregar_parametros ==
    [i \in 1..Len(ChavesRegistro) |->
        LET municipio_uf == ChavesRegistro[i]
            params == PARAMETROS_POR_MUNICIPIO[municipio_uf]
        IN  [MUNICIPIO |-> Rsplit[municipio_uf][1],
             UF |-> Rsplit[municipio_uf][2],
             PARAMETRO_ESF |-> params.parametro_esf,
             LIMITE_ESF |-> params.limite_esf,
             EAP_POR_INE |-> IF "eap_por_ine" \in DOMAIN params
                             THEN params.eap_por_ine ELSE <<>>]]

\* _normalize_text(text)
NormalizeText(text) ==
    IF text \in DOMAIN TabelaNormalize THEN TabelaNormalize[text] ELSE text

(***************************************************************************)
(* Tables.  A DataFrame is its column names and its rows in order; a run   *)
(* of n consecutive equal rows is one block [r |-> row, n |-> n], so a     *)
(* team of some thousand citizens is a single block.  A row maps each      *)
(* column name to a cell.  An uploaded workbook is its file name (split at *)
(* '_') and its sheets in order; a file that is no workbook has no sheet.  *)
(***************************************************************************)
Range(s) == {s[i] : i \in 1..Len(s)}

RECURSIVE SumN(_)
SumN(rows) == IF rows = <<>> THEN 0 ELSE Head(rows).n + SumN(Tail(rows))

\* len(df)
NRows(df) == SumN(df.rows)

\* The blocks whose row satisfies P, in order.
SelectRows(rows, P(_)) == SelectSeq(rows, LAMBDA b : P(b.r))

MapRows(rows, F(_)) == [i \in 1..Len(rows) |-> [r |-> F(rows[i].r), n |-> rows[i].n]]

\* Index.str.strip() on the column names the model's workbooks use.
StripCol(c) ==
    CASE c = " INE " -> "INE"
      [] c = "EQUIPE " -> "EQUIPE"
      [] OTHER -> c

\* df.columns = df.columns.str.strip()
StripColumns(t) ==
    [columns |-> [i \in 1..Len(t.columns) |-> StripCol(t.columns[i])],
     rows |-> MapRows(t.rows,
                 LAMBDA r : [c \in {StripCol(k) : k \in DOMAIN r} |->
                                r[CHOOSE k \in DOMAIN r : StripCol(k) = c]])]

\* pd.read_excel(..., sheet_name='DETALHADO'): None stands for the exception
\* raised when the workbook cannot be read or has no such sheet.
ReadExcelDetalhado(file) ==
    IF \E i \in 1..Len(file.sheets) : file.sheets[i].name = "DETALHADO"
    THEN LET i == CHOOSE j \in 1..Len(file.sheets) : file.sheets[j].name = "DETALHADO"
         IN  [columns |-> file.sheets[i].columns, rows |-> file.sheets[i].rows]
    ELSE None

\* pd.read_excel(...): the first sheet.
ReadExcelFirst(file) ==
    IF file.sheets # <<>>
    THEN [columns |-> file.sheets[1].columns, rows |-> file.sheets[1].rows]
    ELSE None

\* Whether Series.str is available on column c: read_excel gives an object
\* column when the sheet has no row or some cell is a str (all is the column
\* as read); on an object column the accessor rejects values that are all
\* numbers (now is the column at the time of the call).
StrAccessor(all, now, c) ==
    \/ all = <<>>
    \/ /\ \E i \in 1..Len(all) : IsStr(all[i].r[c])
       /\ \/ \A i \in 1..Len(now) : IsNaN(now[i].r[c])
          \/ \E i \in 1..Len(now) : IsStr(now[i].r[c])

\* lines 276-279 on one row.
NormalizarCidadao(r) ==
    LET ine == Str(Strip(AsTypeStr(r[COL_INE])))
    IN  (COL_STATUS_DOC :> StrMethod(r[COL_STATUS_DOC], Upper))
        @@ (COL_TEMPO_SEM_ATUALIZAR :> StrMethod(r[COL_TEMPO_SEM_ATUALIZAR], Upper))
        @@ (COL_UNIDADE :> r[COL_UNIDADE])
        @@ (COL_NOME_EQUIPE :> r[COL_NOME_EQUIPE])
        @@ (COL_INE :> ine)
        @@ (COL_CIDADAO :> r[COL_CIDADAO])
        @@ (COL_EQUIPE_COMPLETA :>
                Concat(Concat(StrMethod(r[COL_NOME_EQUIPE], Strip), Str(SEP)), ine))

ReqCidadaos ==
    <<COL_STATUS_DOC, COL_TEMPO_SEM_ATUALIZAR, COL_UNIDADE, COL_NOME_EQUIPE, COL_INE, COL_CIDADAO>>

\* The dropna of line 275 without the column of the citizen.
DropnaSemCidadao(rows) ==
    SelectRows(rows, LAMBDA r :
        /\ ~IsNaN(r[COL_UNIDADE])
        /\ ~IsNaN(r[COL_NOME_EQUIPE])
        /\ ~IsNaN(r[COL_INE]))

\* line 275: dropna(subset=[COL_UNIDADE, COL_NOME_EQUIPE, COL_INE, COL_CIDADAO])
DropnaCidadaos(rows) ==
    SelectRows(rows, LAMBDA r :
        /\ ~IsNaN(r[COL_UNIDADE])
        /\ ~IsNaN(r[COL_NOME_EQUIPE])
        /\ ~IsNaN(r[COL_INE])
        /\ ~IsNaN(r[COL_CIDADAO]))

\* _ler_planilha_cidadaos(file): the table, or None ("not this kind").
LerPlanilhaCidadaos(file) ==
    LET lido == ReadExcelDetalhado(file)
    IN  IF lido = None THEN None
        ELSE LET df == StripColumns(lido)
             IN  IF ~(Range(ReqCidadaos) \subseteq Range(df.columns)) THEN None
                 ELSE LET kept == DropnaCidadaos(df.rows)
                      IN  IF /\ StrAccessor(df.rows, kept, COL_TEMPO_SEM_ATUALIZAR)
                             /\ StrAccessor(df.rows, kept, COL_STATUS_DOC)
                             /\ StrAccessor(df.rows, kept, COL_NOME_EQUIPE)
                          THEN [columns |-> Append(ReqCidadaos, COL_EQUIPE_COMPLETA),
                                rows |-> MapRows(kept, NormalizarCidadao)]
                          ELSE None

\* Whether _ler_planilha_cidadaos(file) ends in its except clause, which shows
\* the text of the exception with st.error (lines 281-283).
ErroLerCidadaos(file) ==
    LET lido == ReadExcelDetalhado(file)
    IN  \/ lido = None
        \/ /\ Range(ReqCidadaos) \subseteq Range(StripColumns(lido).columns)
           /\ LerPlanilhaCidadaos(file) = None

ReqDomicilios == <<DOM_COL_UNIDADE, "INE", COL_TEMPO_SEM_ATUALIZAR, COL_FAMILIA_VINCULADA>>

\* lines 293-295 on one row.
NormalizarDomicilio(r) ==
    ("ESTABELECIMENTO_COMPLETO" :>
        IF IsNaN(r[DOM_COL_UNIDADE]) THEN NaN
        ELSE Str(r[DOM_COL_UNIDADE].str \o SEP \o
                 (IF IsNaN(r["INE"]) THEN <<"nan">> ELSE AsTypeStr(r["INE"]))))
    @@ (COL_TEMPO_SEM_ATUALIZAR :> r[COL_TEMPO_SEM_ATUALIZAR])
    @@ (COL_FAMILIA_VINCULADA :> r[COL_FAMILIA_VINCULADA])

\* _ler_planilha_domicilios(file): adding ' - ' to a number (a numeric cell, or
\* a column read as float64 because every cell is empty) raises TypeError, which
\* the except clause turns into None.
LerPlanilhaDomicilios(file) ==
    LET lido == ReadExcelDetalhado(file)
    IN  IF lido = None THEN None
        ELSE LET df == StripColumns(lido)
             IN  IF ~(Range(ReqDomicilios) \subseteq Range(df.columns)) THEN None
                 ELSE IF \/ \E i \in 1..Len(df.rows) : IsNum(df.rows[i].r[DOM_COL_UNIDADE])
                         \/ /\ df.rows # <<>>
                            /\ \A i \in 1..Len(df.rows) : ~IsStr(df.rows[i].r[DOM_COL_UNIDADE])
                      THEN None
                      ELSE [columns |-> <<"ESTABELECIMENTO_COMPLETO",
                                          COL_TEMPO_SEM_ATUALIZAR, COL_FAMILIA_VINCULADA>>,
                            rows |-> MapRows(df.rows, NormalizarDomicilio)]

\* A date cell (a day number); pd.to_datetime(errors='coerce') keeps dates
\* and turns every other cell into NaT, the missing value.
Date(d) == [date |-> d]
IsDate(c) == DOMAIN c = {"date"}
ToDatetime(c) == IF IsDate(c) THEN c ELSE NaN

\* _ler_planilha_produtividade(file)
LerPlanilhaProdutividade(file) ==
    LET lido == ReadExcelFirst(file)
    IN  IF lido = None THEN None
        ELSE LET df == StripColumns(lido)
             IN  IF "DATA" \in Range(df.columns)
                 THEN [columns |-> df.columns,
                       rows |-> MapRows(df.rows,
                                   LAMBDA r : [r EXCEPT !["DATA"] = ToDatetime(@)])]
                 ELSE df

(***************************************************************************)
(* State.  files, view, w_unidade, w_periodo and w_prod are the session:   *)
(* the uploader's files, st.session_state.view, the values of the two      *)
(* filter widgets and of the selectboxes of the production report.  The others are the attributes of the DashboardAPS      *)
(* object of the current script run, the locals of _processar_uploads,     *)
(* and what the run has shown: messages, the tables of the crosstab and  *)
(* the figures of the summary, production and attendance reports.        *)
(* ensaio holds the arguments and the result of a function applied on its  *)
(* own, outside a script run (None in a script run).                       *)
(***************************************************************************)
VARIABLES
    files, view, w_unidade, w_periodo, w_prod,
    pc, i_file, cid_list, dom_list, prod_list, chamadas,
    df_cid_bruto, df_cid_filtrado, df_dom_bruto, df_dom_filtrado,
    df_prod_bruto, df_prod_filtrado, df_vinculos,
    municipio_selecionado, unidade_selecionada, periodo_selecionado,
    parametro_oficial, limite_oficial, parametros_municipio_atual, grupo_principal,
    mensagens, tab, perc_df, resumo, producao, scorecard, ensaio

sessao == <<files, view, w_unidade, w_periodo, w_prod, ensaio>>
locais == <<i_file, cid_list, dom_list, prod_list, chamadas>>
brutos == <<df_cid_bruto, df_dom_bruto, df_prod_bruto>>
filtrados == <<df_cid_filtrado, df_dom_filtrado, df_prod_filtrado, df_vinculos, grupo_principal>>
municipio == <<municipio_selecionado, parametro_oficial, limite_oficial, parametros_municipio_atual>>
filtros == <<unidade_selecionada, periodo_selecionado>>
paineis == <<resumo, producao, scorecard>>
tabelas == <<tab, perc_df, paineis>>
saida == <<mensagens, tabelas>>
vars == <<sessao, pc, locais, brutos, filtrados, municipio, filtros, saida>>

Todas == <<"Todas">>
\* The three selectboxes of the production report on their first option.
SemFiltroProducao == [unidade |-> Todas, equipe |-> Todas, cargo |-> Todas]
\* municipio_selecionado before a municipality is selected.
SemMunicipio == "None"

\* DashboardAPS.__init__, and the empty page of a new script run.
Construtor ==
    /\ df_cid_bruto' = None /\ df_cid_filtrado' = None
    /\ df_dom_bruto' = None /\ df_dom_filtrado' = None
    /\ df_prod_bruto' = None /\ df_prod_filtrado' = None
    /\ df_vinculos' = None
    /\ municipio_selecionado' = SemMunicipio
    /\ unidade_selecionada' = Todas
    /\ periodo_selecionado' = None
    /\ parametro_oficial' = 0 /\ limite_oficial' = 0
    /\ parametros_municipio_atual' = <<>>
    /\ grupo_principal' = COL_UNIDADE
    /\ i_file' = 1 /\ cid_list' = <<>> /\ dom_list' = <<>> /\ prod_list' = <<>>
    /\ chamadas' = <<>>
    /\ mensagens' = {} /\ tab' = None /\ perc_df' = None
    /\ resumo' = None /\ producao' = None /\ scorecard' = None
    /\ pc' = "start"

\* The session of a user who has logged in, and the first script run.
InitApp ==
    /\ files = <<>> /\ view = "menu" /\ w_unidade = Todas /\ w_periodo = None
    /\ w_prod = SemFiltroProducao
    /\ df_cid_bruto = None /\ df_cid_filtrado = None
    /\ df_dom_bruto = None /\ df_dom_filtrado = None
    /\ df_prod_bruto = None /\ df_prod_filtrado = None
    /\ df_vinculos = None
    /\ municipio_selecionado = SemMunicipio
    /\ unidade_selecionada = Todas
    /\ periodo_selecionado = None
    /\ parametro_oficial = 0 /\ limite_oficial = 0
    /\ parametros_municipio_atual = <<>>
    /\ grupo_principal = COL_UNIDADE
    /\ i_file = 1 /\ cid_list = <<>> /\ dom_list = <<>> /\ prod_list = <<>>
    /\ chamadas = <<>>
    /\ mensagens = {} /\ tab = None /\ perc_df = None
    /\ resumo = None /\ producao = None /\ scorecard = None
    /\ pc = "start"

Init == InitApp /\ ensaio = None

(***************************************************************************)
(* _processar_uploads                                                      *)
(***************************************************************************)
\* The body of the loop without its two continue statements: every parser is
\* called and every accepted table is appended.
RoteamentoSemContinue(f) ==
    LET df_cid == LerPlanilhaCidadaos(f)
        df_dom == LerPlanilhaDomicilios(f)
        df_prod == LerPlanilhaProdutividade(f)
    IN  [calls |-> <<"cidadaos", "domicilios", "produtividade">>,
         cid |-> df_cid, dom |-> df_dom,
         prod |-> IF df_prod # None /\ "EQUIPE" \in Range(df_prod.columns)
                  THEN df_prod ELSE None]

\* The body of the loop ending after the citizens parser.
RoteamentoSoCidadaos(f) ==
    [calls |-> <<"cidadaos">>, cid |-> LerPlanilhaCidadaos(f), dom |-> None, prod |-> None]

\* The body of the loop for one file: the parsers called, in order, and the
\* table each list receives (None: nothing is appended).
Roteamento(f) ==
    LET df_cid == LerPlanilhaCidadaos(f)
        df_dom == LerPlanilhaDomicilios(f)
        df_prod == LerPlanilhaProdutividade(f)
    IN  IF df_cid # None
        THEN [calls |-> <<"cidadaos">>, cid |-> df_cid, dom |-> None, prod |-> None]
        ELSE IF df_dom # None
        THEN [calls |-> <<"cidadaos", "domicilios">>,
              cid |-> None, dom |-> df_dom, prod |-> None]
        ELSE [calls |-> <<"cidadaos", "domicilios", "produtividade">>,
              cid |-> None, dom |-> None,
              prod |-> IF df_prod # None /\ "EQUIPE" \in Range(df_prod.columns)
                       THEN df_prod ELSE None]

\* The columns of pd.concat(list): those of the first table, then each new one.
RECURSIVE ConcatColumns(_)
ConcatColumns(list) ==
    IF list = <<>> THEN <<>>
    ELSE LET rest == ConcatColumns(SubSeq(list, 1, Len(list) - 1))
             last == list[Len(list)].columns
         IN  rest \o SelectSeq(last, LAMBDA c : c \notin Range(rest))

RECURSIVE ConcatRows(_, _)
ConcatRows(list, cols) ==
    IF list = <<>> THEN <<>>
    ELSE MapRows(Head(list).rows,
                 LAMBDA r : [c \in Range(cols) |-> IF c \in DOMAIN r THEN r[c] ELSE NaN])
         \o ConcatRows(Tail(list), cols)

\* The first table of the list in place of the concatenation.
PdConcatPrimeiro(list) == [columns |-> list[1].columns, rows |-> list[1].rows]

\* pd.concat(list, ignore_index=True): a column a table lacks is filled with NaN.
PdConcat(list) ==
    [columns |-> ConcatColumns(list), rows |-> ConcatRows(list, ConcatColumns(list))]

(***************************************************************************)
(* Team resolution and capacity classifier                                 *)
(***************************************************************************)
\* _get_parametros_por_ine without the lookup in the override map.
GetParametrosSemOverride(ine) ==
    [tipo |-> "ESF", parametro |-> parametro_oficial, limite_maximo |-> limite_oficial]

\* _get_parametros_por_ine(ine)
GetParametrosPorIne(ine) ==
    LET eap_map == IF "EAP_POR_INE" \in DOMAIN parametros_municipio_atual
                   THEN parametros_municipio_atual.EAP_POR_INE ELSE <<>>
    IN  IF ine \in DOMAIN eap_map
        THEN eap_map[ine]
        ELSE [tipo |-> "ESF", parametro |-> parametro_oficial,
              limite_maximo |-> limite_oficial]

\* get_status with the two tests in the other order.
GetStatusParametroPrimeiro(n, parametro, limite) ==
    IF n > parametro THEN ACIMA_PARAMETRO
    ELSE IF n > limite THEN ACIMA_LIMITE
    ELSE DENTRO

\* get_status(row)
GetStatus(n, parametro, limite) ==
    IF n > limite THEN ACIMA_LIMITE
    ELSE IF n > parametro THEN ACIMA_PARAMETRO
    ELSE DENTRO

\* formatar_nome_exibicao with the subtype "20" alone labelled EAP.
FormatarNomeSo20(tipo, unidade, ine) ==
    LET tipo_sigla == IF tipo \in {"20"} THEN <<"EAP", " ", tipo>> ELSE <<"ESF">>
    IN  tipo_sigla \o SEP \o unidade \o SEP \o ine

\* formatar_nome_exibicao(row)
FormatarNomeExibicao(tipo, unidade, ine) ==
    LET tipo_sigla == IF tipo \in {"20", "30"} THEN <<"EAP", " ", tipo>> ELSE <<"ESF">>
    IN  tipo_sigla \o SEP \o unidade \o SEP \o ine

\* Python's order of str (by code point), on token sequences: the tokens of the
\* model in ascending order, blank and hyphen before every word.
OrdemTokens ==
    <<" ", "-", "0000001", "0001234", "0004321", "0005678", "0009999", "1", "101", "1234", "2", "20",
      "30", "A", "AGENTE COMUNITÁRIO DE SAÚDE", "B", "C", "EAP", "EQUIPE", "ESF", "Não Informado", "UBS", "X", "nan", "ubs">>

TokRank(t) == CHOOSE i \in 1..Len(OrdemTokens) : OrdemTokens[i] = t

RECURSIVE StrLess(_, _)
StrLess(a, b) ==
    IF b = <<>> THEN FALSE
    ELSE IF a = <<>> THEN TRUE
    ELSE IF Head(a) = Head(b) THEN StrLess(Tail(a), Tail(b))
    ELSE TokRank(Head(a)) < TokRank(Head(b))

\* The order of tuples of str.
KeyLess(k1, k2) ==
    \/ StrLess(k1[1], k2[1])
    \/ k1[1] = k2[1] /\ StrLess(k1[2], k2[2])

RECURSIVE SortKeys(_)
SortKeys(S) ==
    IF S = {} THEN <<>>
    ELSE LET m == CHOOSE k \in S : \A o \in S \ {k} : KeyLess(k, o)
         IN  <<m>> \o SortKeys(S \ {m})

\* groupby([COL_UNIDADE, COL_EQUIPE_COMPLETA]): the keys in ascending order;
\* a row with a missing key belongs to no group.
GroupKeys(df) ==
    SortKeys({<<df.rows[i].r[COL_UNIDADE].str, df.rows[i].r[COL_EQUIPE_COMPLETA].str>> :
                i \in {j \in 1..Len(df.rows) :
                        /\ IsStr(df.rows[j].r[COL_UNIDADE])
                        /\ IsStr(df.rows[j].r[COL_EQUIPE_COMPLETA])}})

\* [COL_CIDADAO].count() of one group: its rows with a citizen.
GroupCount(df, k) ==
    SumN(SelectRows(df.rows, LAMBDA r :
            /\ r[COL_UNIDADE] = Str(k[1])
            /\ r[COL_EQUIPE_COMPLETA] = Str(k[2])
            /\ ~IsNaN(r[COL_CIDADAO])))

\* Line 339 with the first piece of the split in place of the last.
ExtrairINEPrimeiro(equipe_original) ==
    LET partes == Split(equipe_original)
    IN  Strip(partes[1])

\* vinculos_df['Equipe Original'].str.split(' - ').str[-1].str.strip()
ExtrairINE(equipe_original) ==
    LET partes == Split(equipe_original)
    IN  Strip(partes[Len(partes)])

\* lines 336-362 for the group of key k: one row of vinculos_df.
LinhaVinculo(df, k) ==
    LET n == GroupCount(df, k)
        ine == ExtrairINE(k[2])
        params == GetParametrosPorIne(ine)
    IN  [unidade |-> k[1], equipe_original |-> k[2], n |-> n, ine |-> ine,
         tipo |-> params.tipo, parametro |-> params.parametro,
         limite |-> params.limite_maximo,
         status |-> GetStatus(n, params.parametro, params.limite_maximo),
         equipe |-> FormatarNomeExibicao(params.tipo, k[1], ine)]

\* vinculos_df before the final sort, in the order of groupby.
LinhasVinculos(df) ==
    LET keys == GroupKeys(df)
    IN  [i \in 1..Len(keys) |-> LinhaVinculo(df, keys[i])]

Perms(n) == {p \in [1..n -> 1..n] : \A i, j \in 1..n : i # j => p[i] # p[j]}

\* sort_values(by, ascending=False) with the default kind='quicksort', which is
\* not stable: every descending arrangement of the rows is a possible result.
\* Key(_) is the value of the sort column in a row.
SortValuesDesc(rows, Key(_)) ==
    {[i \in 1..Len(rows) |-> rows[p[i]]] :
        p \in {q \in Perms(Len(rows)) :
                \A i \in 1..(Len(rows) - 1) : Key(rows[q[i]]) >= Key(rows[q[i + 1]])}}

\* _calcular_vinculos(): the possible results.  With no group, apply() returns
\* a DataFrame and the assignment to 'Status' raises: no result.
CalcularVinculos(df) ==
    IF GroupKeys(df) = <<>> THEN {}
    ELSE {[rows |-> s] : s \in SortValuesDesc(LinhasVinculos(df), LAMBDA row : row.n)}

\* The query of line 368 that keeps every row.
QueryUnidadeTodas(df, unidade) == df

\* df_cid_bruto.query("`UNIDADE DE SAÚDE` == @self.unidade_selecionada")
QueryUnidade(df, unidade) ==
    [columns |-> df.columns,
     rows |-> SelectRows(df.rows, LAMBDA r : r[COL_UNIDADE] = Str(unidade))]

\* lines 374-376 with both ends of periodo left out.
FiltrarPeriodoExclusivo(df, periodo) ==
    [columns |-> df.columns,
     rows |-> SelectRows(df.rows, LAMBDA r :
                 /\ IsDate(r["DATA"])
                 /\ r["DATA"].date > periodo[1]
                 /\ r["DATA"].date < periodo[2])]

\* lines 374-376: the rows with a date inside periodo, both ends included.
FiltrarPeriodo(df, periodo) ==
    [columns |-> df.columns,
     rows |-> SelectRows(df.rows, LAMBDA r :
                 /\ IsDate(r["DATA"])
                 /\ r["DATA"].date >= periodo[1]
                 /\ r["DATA"].date <= periodo[2])]

(***************************************************************************)
(* Aggregation engine: _gerar_grafico_barras_crosstab                      *)
(***************************************************************************)
\* Numbers of the percentage table: an exact fraction, or the float NaN.
Frac(a, b) == [num |-> a, den |-> b]
FloatNaN == [float |-> "nan"]
FloatInf == [float |-> "inf"]

\* Series / Series on floats: x/0 is inf and 0/0 is NaN, no exception.
FloatDiv(a, b) ==
    IF b # 0 THEN Frac(a, b) ELSE IF a = 0 THEN FloatNaN ELSE FloatInf

\* .fillna(0)
FillNa0(x) == IF x = FloatNaN THEN Frac(0, 1) ELSE x

\* x * 100
Times100(x) == IF DOMAIN x = {"float"} THEN x ELSE Frac(x.num * 100, x.den)

RECURSIVE SortStrs(_)
SortStrs(S) ==
    IF S = {} THEN <<>>
    ELSE LET m == CHOOSE k \in S : \A o \in S \ {k} : StrLess(k, o)
         IN  <<m>> \o SortStrs(S \ {m})

\* The rows pd.crosstab counts: both the group and the category present.
CrosstabRows(df, grupo, col) ==
    SelectRows(df.rows, LAMBDA r : IsStr(r[grupo]) /\ IsStr(r[col]))

\* A crosstab whose rows are the groups with a record of a category of the
\* two fixed orders.
CrosstabIndexSoDaOrdem(df, grupo, col) ==
    SortStrs({CrosstabRows(df, grupo, col)[i].r[grupo].str :
                i \in {j \in 1..Len(CrosstabRows(df, grupo, col)) :
                        CrosstabRows(df, grupo, col)[j].r[col].str
                            \in Range(ordem_tempo) \cup Range(ordem_cpf)}})

\* pd.crosstab(index=df[grupo], columns=df[col_categorica]): the row labels in
\* ascending order, the observed categories, and the count of each cell.
CrosstabIndex(df, grupo, col) ==
    SortStrs({CrosstabRows(df, grupo, col)[i].r[grupo].str :
                i \in 1..Len(CrosstabRows(df, grupo, col))})

CrosstabColumns(df, grupo, col) ==
    {CrosstabRows(df, grupo, col)[i].r[col].str :
        i \in 1..Len(CrosstabRows(df, grupo, col))}

CrosstabCount(df, grupo, col, g, cat) ==
    SumN(SelectRows(df.rows, LAMBDA r : r[grupo] = Str(g) /\ r[col] = Str(cat)))

RECURSIVE SumSeq(_)
SumSeq(s) == IF s = <<>> THEN 0 ELSE Head(s) + SumSeq(Tail(s))

\* The columns without the zero fill of lines 384-385.
ColunasObservadas(df, grupo, col, ordem) ==
    SelectSeq(ordem, LAMBDA c : c \in CrosstabColumns(df, grupo, col))

\* lines 384-386: the columns after the zero fill and the selection tab[ordem].
ColunasCrosstab(df, grupo, col, ordem) == ordem

\* lines 383-386: the count of category cat in row g; a category that the
\* crosstab did not observe is the column of zeros of line 385.
CelulaCrosstab(df, grupo, col, g, cat) ==
    IF cat \in CrosstabColumns(df, grupo, col)
    THEN CrosstabCount(df, grupo, col, g, cat) ELSE 0

\* A Total that is the first category alone.
TotalPrimeiraColuna(counts) == counts[1]

\* line 387: tab['Total'] = tab.sum(axis=1)
TotalLinha(counts) == SumSeq(counts)

\* lines 383-387: the rows of tab before the sort.
LinhasCrosstab(df, grupo, col, ordem) ==
    LET idx == CrosstabIndex(df, grupo, col)
        cols == ColunasCrosstab(df, grupo, col, ordem)
    IN  [i \in 1..Len(idx) |->
            LET counts == [j \in 1..Len(cols) |->
                              CelulaCrosstab(df, grupo, col, idx[i], cols[j])]
            IN  [grupo |-> idx[i], counts |-> counts, Total |-> TotalLinha(counts)]]

\* line 389 without .fillna(0).
PercentualSemFillna(count, total) == Times100(FloatDiv(count, total))

\* line 389: one cell of perc_df.
Percentual(count, total) == Times100(FillNa0(FloatDiv(count, total)))

\* line 389: perc_df has the rows of tab, in the order of tab.
PercDf(t) ==
    [columns |-> SubSeq(t.columns, 1, Len(t.columns) - 1),
     rows |-> [i \in 1..Len(t.rows) |->
                [grupo |-> t.rows[i].grupo,
                 perc |-> [j \in 1..Len(t.rows[i].counts) |->
                              Percentual(t.rows[i].counts[j], t.rows[i].Total)]]]]

\* lines 383-387 without the sort of line 388.
CrosstabSemOrdenar(df, grupo, col, ordem) ==
    {[columns |-> Append(ColunasCrosstab(df, grupo, col, ordem), <<"Total">>),
      rows |-> LinhasCrosstab(df, grupo, col, ordem)]}

\* lines 383-388: the possible values of tab (the sort is not stable).
GerarCrosstab(df, grupo, col, ordem) ==
    {[columns |-> Append(ColunasCrosstab(df, grupo, col, ordem), <<"Total">>), rows |-> s] :
        s \in SortValuesDesc(LinhasCrosstab(df, grupo, col, ordem), LAMBDA row : row.Total)}

(***************************************************************************)
(* The production report and the attendance report.                        *)
(***************************************************************************)
\* The number of entries of the two rankings (nlargest(5), lines 673 and 678).
TopN == 5

\* Series.sum() of TOTAL GERAL over the rows: a missing value counts nothing.
RECURSIVE SumTotalGeral(_)
SumTotalGeral(rows) ==
    IF rows = <<>> THEN 0
    ELSE (IF IsNum(Head(rows).r["TOTAL GERAL"])
          THEN Head(rows).r["TOTAL GERAL"].num * Head(rows).n ELSE 0)
         + SumTotalGeral(Tail(rows))

\* df[col].dropna().unique(), as a set.
Unicos(df, col) ==
    {df.rows[i].r[col].str : i \in {j \in 1..Len(df.rows) : IsStr(df.rows[j].r[col])}}

\* df.groupby(col)['TOTAL GERAL'].sum(): one entry per key, in ascending order
\* of the key; the rows without key are in no group.
GroupbySum(df, col) ==
    LET chaves == SortStrs(Unicos(df, col))
    IN  [i \in 1..Len(chaves) |->
            [chave |-> chaves[i],
             total |-> SumTotalGeral(SelectRows(df.rows, LAMBDA r : r[col] = Str(chaves[i])))]]

\* The first n entries by total, ties in the order of the series.
NLargestEstavel(s, n) ==
    LET posto(i) == Cardinality({j \in 1..Len(s) :
                        \/ s[j].total > s[i].total
                        \/ s[j].total = s[i].total /\ j < i}) + 1
    IN  [k \in 1..n |-> s[CHOOSE i \in 1..Len(s) : posto(i) = k]]

\* Series.nlargest(n): the possible results.  With n >= len(series) pandas
\* returns sort_values(ascending=False).head(n), whose quicksort is not
\* stable; otherwise it selects the n largest with a stable sort and keeps the
\* first of tied entries.
NLargest(s, n) ==
    IF n >= Len(s) THEN SortValuesDesc(s, LAMBDA g : g.total)
    ELSE {NLargestEstavel(s, n)}

\* line 663: df_filt['PROFISSIONAL'].fillna('Não Informado')
FillNaProfissional(df) ==
    [columns |-> df.columns,
     rows |-> MapRows(df.rows, LAMBDA r :
                 [r EXCEPT !["PROFISSIONAL"] =
                     IF IsNaN(@) THEN Str(<<"Não Informado">>) ELSE @])]

\* lines 634-637: df_filt for the values of the three selectboxes.
FiltrarProducao(df, unidade, equipe, cargo) ==
    [columns |-> df.columns,
     rows |-> SelectRows(df.rows, LAMBDA r :
                 /\ unidade = Todas \/ r["ESTABELECIMENTO"] = Str(unidade)
                 /\ equipe = Todas \/ r["EQUIPE"] = Str(equipe)
                 /\ cargo = Todas \/ r["DESCRIÇÃO DO CBO"] = Str(cargo))]

\* lines 648 and 527: total / profissionais_unicos if profissionais_unicos > 0 else 0
MediaPorProfissional(total_atendimentos, profissionais_unicos) ==
    IF profissionais_unicos > 0 THEN Frac(total_atendimentos, profissionais_unicos)
    ELSE Frac(0, 1)

\* line 689: the posts whose rows are left out of the total of a unit.
CBO_FORA_DO_TOTAL ==
    {<<"AGENTE COMUNITÁRIO DE SAÚDE">>, <<"TÉCNICO EM AGENTE COMUNITÁRIO DE SAÚDE">>}

\* One group of df.groupby(col), or df[df[col] == chave].
DoGrupo(df, col, chave) ==
    [columns |-> df.columns, rows |-> SelectRows(df.rows, LAMBDA r : r[col] = Str(chave))]

\* line 689: total_unidade, the sum of the rows of the unit whose post is not
\* one of the two.
TotalUnidade(unidade_df) ==
    SumTotalGeral(SelectRows(unidade_df.rows, LAMBDA r :
        ~(IsStr(r["DESCRIÇÃO DO CBO"]) /\ r["DESCRIÇÃO DO CBO"].str \in CBO_FORA_DO_TOTAL)))

\* lines 697-704: the posts of a team and the professionals of each, with
\* their sums, before the sorts that order them on the page.
DetalhesEquipe(equipe_df) ==
    LET cargos == GroupbySum(equipe_df, "DESCRIÇÃO DO CBO")
    IN  [i \in 1..Len(cargos) |->
            [cbo |-> cargos[i].chave, total |-> cargos[i].total,
             profs |-> GroupbySum(DoGrupo(equipe_df, "DESCRIÇÃO DO CBO", cargos[i].chave),
                                  "PROFISSIONAL")]]

\* lines 688-704: the tab "Análise Detalhada por Unidade", one entry per unit
\* of df_filt: its total, the sums of its posts (the bars of lines 692-694, whose
\* segments are the teams) and its teams.
DetalhesProducao(df_filt) ==
    LET unidades == SortStrs(Unicos(df_filt, "ESTABELECIMENTO"))
    IN  [i \in 1..Len(unidades) |->
            LET unidade_df == DoGrupo(df_filt, "ESTABELECIMENTO", unidades[i])
                equipes == SortStrs(Unicos(unidade_df, "EQUIPE"))
            IN  [unidade |-> unidades[i],
                 total_unidade |-> TotalUnidade(unidade_df),
                 cargos |-> GroupbySum(unidade_df, "DESCRIÇÃO DO CBO"),
                 equipes |-> [j \in 1..Len(equipes) |->
                                [equipe |-> equipes[j],
                                 cargos |-> DetalhesEquipe(
                                                DoGrupo(unidade_df, "EQUIPE", equipes[j]))]]]]

\* lines 646-704: the possible figures of the tabs "Visão Geral e Rankings"
\* and "Análise Detalhada por Unidade".
PainelProducao(df_filt) ==
    {[total_atendimentos |-> SumTotalGeral(df_filt.rows),
      profissionais_unicos |-> Cardinality(Unicos(df_filt, "PROFISSIONAL")),
      media_por_profissional |->
          MediaPorProfissional(SumTotalGeral(df_filt.rows),
                               Cardinality(Unicos(df_filt, "PROFISSIONAL"))),
      top_profissional_series |-> tp,
      top_cargo_series |-> tc,
      top_5_profissionais |-> t5p,
      top_5_equipes |-> t5e,
      detalhes |-> DetalhesProducao(FillNaProfissional(df_filt))] :
        tp \in NLargest(GroupbySum(df_filt, "PROFISSIONAL"), 1),
        tc \in NLargest(GroupbySum(df_filt, "DESCRIÇÃO DO CBO"), 1),
        t5p \in NLargest(GroupbySum(FillNaProfissional(df_filt), "PROFISSIONAL"), TopN),
        t5e \in NLargest(GroupbySum(FillNaProfissional(df_filt), "EQUIPE"), TopN)}

\* lines 715-721
mapa_categorias ==
    <<"CONSULTA AGENDADA">> :> <<"Cuidado Programado">> @@
    <<"CONSULTA AGENDADA PROGRAMADA / CUIDADO CONTINUADO">> :> <<"Cuidado Programado">> @@
    <<"CONSULTA NO DIA">> :> <<"Demanda Espontânea">> @@
    <<"ATENDIMENTO DE URGÊNCIA">> :> <<"Demanda Espontânea">> @@
    <<"ESCUTA INICIAL / ORIENTAÇÃO">> :> <<"Outros">>

\* line 751: the columns of crosstab_unidades.
CategoriasAtendimento == <<(<<"Cuidado Programado">>), (<<"Demanda Espontânea">>), (<<"Outros">>)>>

\* lines 712-722: the copy with ESTABELECIMENTO renamed and the category of
\* each row; Series.map gives NaN where the type is no key of the dict.
ComCategoria(df) ==
    [columns |-> df.columns \o <<"Categoria Atendimento">>,
     rows |-> MapRows(df.rows, LAMBDA r :
                 r @@ ("Unidade de Saúde" :> r["ESTABELECIMENTO"])
                   @@ ("Categoria Atendimento" :>
                          IF IsStr(r["TIPO DE ATENDIMENTO"])
                             /\ r["TIPO DE ATENDIMENTO"].str \in DOMAIN mapa_categorias
                          THEN Str(mapa_categorias[r["TIPO DE ATENDIMENTO"].str])
                          ELSE NaN))]

\* lines 749-751: crosstab_unidades, one row per unit with a counted row.
CrosstabUnidades(df) ==
    LinhasCrosstab(ComCategoria(df), "Unidade de Saúde", "Categoria Atendimento",
                   CategoriasAtendimento)

\* line 759: the division of two columns of counts.
IndiceEficiencia(programado, demanda) == FloatDiv(programado, demanda)

\* lines 756-759: the columns added to a row of the crosstab.
LinhaScorecard(row) ==
    [unidade |-> row.grupo,
     perc_programado |-> Times100(FloatDiv(row.counts[1], row.Total)),
     perc_demanda |-> Times100(FloatDiv(row.counts[2], row.Total)),
     indice |-> IndiceEficiencia(row.counts[1], row.counts[2])]

\* The order of floats: a >= b, for two values that are not NaN.
FloatGeq(a, b) ==
    IF a = FloatInf THEN TRUE
    ELSE IF b = FloatInf THEN FALSE
    ELSE a.num * b.den >= b.num * a.den

\* line 761, sort_values(indice, ascending=False): the rows with an index in
\* some descending order (quicksort), then the rows whose index is NaN in
\* their order.
OrdenarScorecard(linhas) ==
    LET com == SelectSeq(linhas, LAMBDA l : l.indice # FloatNaN)
        sem == SelectSeq(linhas, LAMBDA l : l.indice = FloatNaN)
    IN  {[i \in 1..Len(com) |-> com[p[i]]] \o sem :
            p \in {q \in Perms(Len(com)) :
                    \A i \in 1..(Len(com) - 1) :
                        FloatGeq(com[q[i]].indice, com[q[i + 1]].indice)}}

\* line 761: .fillna(0) on the three columns.
FillNaScorecard(l) ==
    [unidade |-> l.unidade,
     perc_programado |-> FillNa0(l.perc_programado),
     perc_demanda |-> FillNa0(l.perc_demanda),
     indice |-> FillNa0(l.indice)]

\* lines 755-761: the possible values of scorecard_display.
ScorecardDisplay(df) ==
    LET linhas == [i \in 1..Len(CrosstabUnidades(df)) |-> LinhaScorecard(CrosstabUnidades(df)[i])]
    IN  {[i \in 1..Len(s) |-> FillNaScorecard(s[i])] : s \in OrdenarScorecard(linhas)}

\* The types of the rows the crosstabs of the tabs count.
TiposContados(df) ==
    {df.rows[i].r["TIPO DE ATENDIMENTO"].str :
        i \in {j \in 1..Len(df.rows) : /\ IsStr(df.rows[j].r["ESTABELECIMENTO"])
                                       /\ IsStr(df.rows[j].r["TIPO DE ATENDIMENTO"])}}

\* lines 764-808: the tabs after the scorecard end without exception.  idxmax
\* of tab 2 needs a row in the crosstab; sort_values of tab 3 and px.bar of
\* tab 4 need the columns of the two types of each category.
AbasSemExcecao(df) ==
    /\ CrosstabUnidades(df) # <<>>
    /\ {<<"ATENDIMENTO DE URGÊNCIA">>, <<"CONSULTA NO DIA">>, <<"CONSULTA AGENDADA">>,
        <<"CONSULTA AGENDADA PROGRAMADA / CUIDADO CONTINUADO">>} \subseteq TiposContados(df)

\* lines 725-736: the figures above the tabs; the two shares only when the
\* table has a row.
KpisAtendimento(df) ==
    LET total_atendimentos == NRows(df)
        conta(cat) == SumN(SelectRows(ComCategoria(df).rows,
                              LAMBDA r : r["Categoria Atendimento"] = Str(cat)))
    IN  IF total_atendimentos > 0
        THEN [total_atendimentos |-> total_atendimentos,
              programado_perc |-> Frac(conta(<<"Cuidado Programado">>), total_atendimentos),
              demanda_perc |-> Frac(conta(<<"Demanda Espontânea">>), total_atendimentos)]
        ELSE [total_atendimentos |-> 0]

\* lines 712-761: the possible figures of the attendance report.
PainelAtendimento(df) ==
    {[kpis |-> KpisAtendimento(df), scorecard_display |-> s] : s \in ScorecardDisplay(df)}

(***************************************************************************)
(* The summary report.                                                     *)
(***************************************************************************)
\* Series.nunique(): the number of distinct values that are not missing.
NUnique(rows, col) ==
    Cardinality({rows[i].r[col] : i \in {j \in 1..Len(rows) : ~IsNaN(rows[j].r[col])}})

\* lines 460 and 461: x / total_equipes if total_equipes > 0 else 0
PorEquipe(x, total_equipes) ==
    IF total_equipes > 0 THEN Frac(x, total_equipes) ELSE Frac(0, 1)

\* lines 493-494: the stale registrations of a team, over all its units; the
\* left merge with fillna(0) gives 0 to a team with none.
NDesatualizados(df, equipe_original) ==
    SumN(SelectRows(df.rows, LAMBDA r :
            /\ r[COL_EQUIPE_COMPLETA] = Str(equipe_original)
            /\ IsStr(r[COL_TEMPO_SEM_ATUALIZAR])
            /\ r[COL_TEMPO_SEM_ATUALIZAR].str \in {ordem_tempo[3], ordem_tempo[4]}))

\* lines 496-497: one row of df_merged.
LinhaDesatualizados(df, v) ==
    [equipe |-> v.equipe,
     perc_desatualizados |->
         Times100(FloatDiv(NDesatualizados(df, v.equipe_original), v.n))]

\* line 499: sort_values('% Desatualizados', ascending=False).head(10); no
\* value is NaN when every team has a citizen.
TopDesatualizados(df, vinculos) ==
    LET linhas == [i \in 1..Len(vinculos.rows) |-> LinhaDesatualizados(df, vinculos.rows[i])]
        com == SelectSeq(linhas, LAMBDA l : l.perc_desatualizados # FloatNaN)
        sem == SelectSeq(linhas, LAMBDA l : l.perc_desatualizados = FloatNaN)
    IN  {SubSeq(s, 1, IF Len(s) < 10 THEN Len(s) ELSE 10) :
            s \in {[i \in 1..Len(com) |-> com[p[i]]] \o sem :
                    p \in {q \in Perms(Len(com)) :
                            \A i \in 1..(Len(com) - 1) :
                                FloatGeq(com[q[i]].perc_desatualizados,
                                         com[q[i + 1]].perc_desatualizados)}}}

\* lines 520-527: the production figures of the summary.
ResumoProducao(df) ==
    [total_atendimentos |-> SumTotalGeral(df.rows),
     profissionais_unicos |-> NUnique(df.rows, "PROFISSIONAL"),
     media |-> MediaPorProfissional(SumTotalGeral(df.rows), NUnique(df.rows, "PROFISSIONAL"))]

\* lines 453-527: the possible figures of the summary.
PainelResumo(df_cid, vinculos, df_prod) ==
    LET total_cidadaos == NUnique(df_cid.rows, COL_CIDADAO)
        total_equipes == Cardinality({vinculos.rows[i].equipe_original :
                                        i \in 1..Len(vinculos.rows)})
        acima_limite == Cardinality({i \in 1..Len(vinculos.rows) :
                                        vinculos.rows[i].status = ACIMA_LIMITE})
    IN  {[total_cidadaos |-> total_cidadaos,
          total_equipes |-> total_equipes,
          acima_limite |-> acima_limite,
          media_cidadaos_equipe |-> PorEquipe(total_cidadaos, total_equipes),
          perc_criticas |-> PorEquipe(acima_limite, total_equipes),
          top_desatualizados |-> t,
          producao |-> IF df_prod # None /\ NRows(df_prod) > 0
                       THEN ResumoProducao(df_prod) ELSE None] :
            t \in TopDesatualizados(df_cid, vinculos)}

(***************************************************************************)
(* The script run: run(), render_controls, _preparar_dados_para_analise,   *)
(* render_dashboard_content.                                               *)
(***************************************************************************)
\* os.path.basename(f.name).split('_')[0]
FileToken(f) == f.name[1]

\* sorted(self.df_parametros['MUNICIPIO'].unique())
Municipios ==
    LET nomes == {carregar_parametros[i].MUNICIPIO : i \in 1..Len(carregar_parametros)}
    IN  [i \in 1..Cardinality(nomes) |->
            CHOOSE m \in nomes :
                Cardinality({o \in nomes : OrdemCodePoint[o] < OrdemCodePoint[m]}) = i - 1]

\* map_norm[token], for a token that is a key of map_norm.
MapNorm(token) ==
    CHOOSE m \in Range(Municipios) : NormalizeText(m) = token

InMapNorm(token) == \E m \in Range(Municipios) : NormalizeText(m) = token

\* line 421: the municipality of the first file whose name has one, else None.
MunicipioInferido(fs) ==
    LET hits == {i \in 1..Len(fs) : InMapNorm(NormalizeText(FileToken(fs[i])))}
    IN  IF hits = {} THEN SemMunicipio
        ELSE MapNorm(NormalizeText(FileToken(
                fs[CHOOSE i \in hits : \A j \in hits : i <= j])))

\* line 422 with the last municipality of the list as the default.
MunicipioSelecionadoUltimo(fs) ==
    IF MunicipioInferido(fs) # SemMunicipio THEN MunicipioInferido(fs)
    ELSE Municipios[Len(Municipios)]

\* line 422: municipio_inferido or municipios[0]
MunicipioSelecionado(fs) ==
    IF MunicipioInferido(fs) # SemMunicipio THEN MunicipioInferido(fs) ELSE Municipios[1]

\* line 425 without the query: the first row of the registry.
ParsPrimeiraLinha(m) == carregar_parametros[1]

\* line 425: df_parametros.query("MUNICIPIO == @...").iloc[0]
Pars(m) ==
    carregar_parametros[CHOOSE i \in 1..Len(carregar_parametros) :
        /\ carregar_parametros[i].MUNICIPIO = m
        /\ \A j \in 1..(i - 1) : carregar_parametros[j].MUNICIPIO # m]

\* The options of the selectbox "2. Filtrar por Unidade".
Unidades(df) == {Todas} \cup {df.rows[i].r[COL_UNIDADE].str : i \in 1..Len(df.rows)}

\* The dates of a productivity table (dropna(subset=['DATA'])).
Datas(df) == {df.rows[i].r["DATA"].date : i \in {j \in 1..Len(df.rows) : IsDate(df.rows[j].r["DATA"])}}

Min(S) == CHOOSE x \in S : \A y \in S : x <= y
Max(S) == CHOOSE x \in S : \A y \in S : x >= y

\* A user action ends the page and starts a new script run: DashboardAPS().
\* The user puts files in the empty uploader.
EnviarArquivos(Lotes) ==
    /\ pc \in {"done", "excecao"}
    /\ files = <<>>
    /\ files' \in Lotes \ {<<>>}
    /\ UNCHANGED <<view, w_unidade, w_periodo, w_prod, ensaio>>
    /\ Construtor

\* The user removes the files from the uploader.
RemoverArquivos ==
    /\ pc \in {"done", "excecao"}
    /\ files # <<>>
    /\ files' = <<>>
    /\ w_prod' = SemFiltroProducao
    /\ UNCHANGED <<view, w_unidade, w_periodo, ensaio>>
    /\ Construtor

\* The user picks a unit in the selectbox, shown when there are citizens.
SelecionarUnidade ==
    /\ pc \in {"done", "excecao"}
    /\ df_cid_bruto # None
    /\ \E u \in Unidades(df_cid_bruto) : u # w_unidade /\ w_unidade' = u
    /\ UNCHANGED <<files, view, w_periodo, w_prod, ensaio>>
    /\ Construtor

\* The user picks dates in "3. Filtrar Período (Produção)", shown when the
\* productivity table has dated rows (lines 440-444): a range, or its first
\* date alone.
SelecionarPeriodo(Periodos) ==
    /\ pc \in {"done", "excecao"}
    /\ df_prod_bruto # None
    /\ "DATA" \in Range(df_prod_bruto.columns)
    /\ Datas(df_prod_bruto) # {}
    /\ \E p \in Periodos : [datas |-> p] # w_periodo /\ w_periodo' = [datas |-> p]
    /\ UNCHANGED <<files, view, w_unidade, w_prod, ensaio>>
    /\ Construtor

\* lines 846-848: the reports the menu has a button for.
Reports ==
    (IF df_cid_bruto # None THEN {"resumo", "vinculo", "tempo_cid", "cpf"} ELSE {})
        \cup (IF df_dom_bruto # None THEN {"domicilios", "familia_vinculada"} ELSE {})
        \cup (IF df_prod_bruto # None
              THEN {"producao", "tipo_atendimento", "consultas_esb"} ELSE {})

\* The user presses a report button of the menu, or "Voltar ao Menu Principal";
\* the selectboxes of a report that is left lose their values.
Navegar(Views) ==
    /\ pc = "done"
    /\ \/ /\ view = "menu"
          /\ view' \in Views \cap Reports
       \/ /\ view # "menu"
          /\ view' = "menu"
    /\ w_prod' = SemFiltroProducao
    /\ UNCHANGED <<files, w_unidade, w_periodo, ensaio>>
    /\ Construtor

\* run() up to line 410: with no file, render_controls returns and run() shows
\* the welcome text.
IniciarControles ==
    /\ pc = "start"
    /\ IF files = <<>>
       THEN /\ mensagens' = mensagens \cup {"aguardando", "bem_vindo"}
            /\ pc' = "done"
       ELSE /\ pc' = "uploads"
            /\ UNCHANGED mensagens
    /\ UNCHANGED <<sessao, locais, brutos, filtrados, municipio, filtros, tabelas>>

\* lines 310-316: one turn of the loop over the files.
ProcessarArquivo ==
    /\ pc = "uploads"
    /\ i_file <= Len(files)
    /\ LET rot == Roteamento(files[i_file])
       IN  /\ cid_list' = IF rot.cid # None THEN Append(cid_list, rot.cid) ELSE cid_list
           /\ dom_list' = IF rot.dom # None THEN Append(dom_list, rot.dom) ELSE dom_list
           /\ prod_list' = IF rot.prod # None THEN Append(prod_list, rot.prod) ELSE prod_list
           /\ chamadas' = Append(chamadas, rot.calls)
    /\ mensagens' = IF ErroLerCidadaos(files[i_file])
                    THEN mensagens \cup {"erro_ler_cidadaos"} ELSE mensagens
    /\ i_file' = i_file + 1
    /\ UNCHANGED <<sessao, pc, brutos, filtrados, municipio, filtros, tabelas>>

\* The test of line 414 without effect: the run goes on with no table.
NenhumaValidaNunca(cid, dom, prod) == FALSE

\* line 414: no file of the batch was recognized.
NenhumaValida(cid, dom, prod) == cid = None /\ dom = None /\ prod = None

\* render_controls returning after _processar_uploads, before line 419: the
\* tables of the batch are built and no municipality is selected.
ConcluirControlesSemMunicipio ==
    /\ pc = "uploads"
    /\ i_file > Len(files)
    /\ df_cid_bruto' = IF cid_list # <<>> THEN PdConcat(cid_list) ELSE df_cid_bruto
    /\ df_dom_bruto' = IF dom_list # <<>> THEN PdConcat(dom_list) ELSE df_dom_bruto
    /\ df_prod_bruto' = IF prod_list # <<>> THEN PdConcat(prod_list) ELSE df_prod_bruto
    /\ IF NenhumaValida(df_cid_bruto', df_dom_bruto', df_prod_bruto')
       THEN /\ mensagens' = mensagens \cup {"nenhuma_valida", "bem_vindo"}
            /\ pc' = "done"
       ELSE /\ pc' = "preparar"
            /\ UNCHANGED mensagens
    /\ UNCHANGED <<municipio, filtros>>
    /\ UNCHANGED <<sessao, locais, filtrados, tabelas>>

\* lines 317-319 and 414-444: the tables of the batch, then the municipality,
\* its parameters and the two filters; run() goes on to the analysis when
\* some table exists (line 884).
ConcluirControles ==
    /\ pc = "uploads"
    /\ i_file > Len(files)
    /\ df_cid_bruto' = IF cid_list # <<>> THEN PdConcat(cid_list) ELSE df_cid_bruto
    /\ df_dom_bruto' = IF dom_list # <<>> THEN PdConcat(dom_list) ELSE df_dom_bruto
    /\ df_prod_bruto' = IF prod_list # <<>> THEN PdConcat(prod_list) ELSE df_prod_bruto
    /\ IF NenhumaValida(df_cid_bruto', df_dom_bruto', df_prod_bruto')
       THEN /\ mensagens' = mensagens \cup {"nenhuma_valida", "bem_vindo"}
            /\ pc' = "done"
            /\ UNCHANGED <<municipio, filtros>>
       ELSE /\ municipio_selecionado' = MunicipioSelecionado(files)
            /\ parametros_municipio_atual' = Pars(municipio_selecionado')
            /\ parametro_oficial' = Pars(municipio_selecionado').PARAMETRO_ESF
            /\ limite_oficial' = Pars(municipio_selecionado').LIMITE_ESF
            /\ unidade_selecionada' =
                  IF df_cid_bruto' # None
                  THEN IF w_unidade \in Unidades(df_cid_bruto') THEN w_unidade ELSE Todas
                  ELSE unidade_selecionada
            /\ periodo_selecionado' =
                  IF /\ df_prod_bruto' # None
                     /\ "DATA" \in Range(df_prod_bruto'.columns)
                     /\ Datas(df_prod_bruto') # {}
                  THEN IF w_periodo # None THEN w_periodo
                       ELSE [datas |-> <<Min(Datas(df_prod_bruto')), Max(Datas(df_prod_bruto'))>>]
                  ELSE periodo_selecionado
            /\ pc' = "preparar"
            /\ UNCHANGED mensagens
    /\ UNCHANGED <<sessao, locais, filtrados, tabelas>>

\* _preparar_dados_para_analise() filtering the raw tables in place: the
\* citizens of the selected facility and the production rows of the period
\* replace the raw tables.
PrepararDadosNoBruto ==
    /\ pc = "preparar"
    /\ IF df_cid_bruto # None
       THEN /\ df_cid_filtrado' = IF unidade_selecionada = Todas THEN df_cid_bruto
                                  ELSE QueryUnidade(df_cid_bruto, unidade_selecionada)
            /\ grupo_principal' = IF unidade_selecionada = Todas THEN COL_UNIDADE ELSE "Equipe"
            /\ IF CalcularVinculos(df_cid_filtrado') = {}
               THEN /\ pc' = "excecao"
                    /\ UNCHANGED <<df_vinculos, df_dom_filtrado, df_prod_filtrado>>
               ELSE /\ df_vinculos' \in CalcularVinculos(df_cid_filtrado')
                    /\ pc' = "render"
                    /\ df_dom_filtrado' = IF df_dom_bruto # None THEN df_dom_bruto
                                          ELSE df_dom_filtrado
                    /\ df_prod_filtrado' =
                          IF df_prod_bruto = None THEN df_prod_filtrado
                          ELSE IF periodo_selecionado # None /\ Len(periodo_selecionado.datas) = 2
                          THEN FiltrarPeriodo(df_prod_bruto, periodo_selecionado.datas)
                          ELSE df_prod_bruto
       ELSE /\ UNCHANGED <<df_cid_filtrado, grupo_principal, df_vinculos>>
            /\ pc' = "render"
            /\ df_dom_filtrado' = IF df_dom_bruto # None THEN df_dom_bruto ELSE df_dom_filtrado
            /\ df_prod_filtrado' =
                  IF df_prod_bruto = None THEN df_prod_filtrado
                  ELSE IF periodo_selecionado # None /\ Len(periodo_selecionado.datas) = 2
                  THEN FiltrarPeriodo(df_prod_bruto, periodo_selecionado.datas)
                  ELSE df_prod_bruto
    /\ df_cid_bruto' = df_cid_filtrado'
    /\ df_prod_bruto' = df_prod_filtrado'
    /\ UNCHANGED <<sessao, locais, df_dom_bruto, municipio, filtros, saida>>

\* _preparar_dados_para_analise(); an exception of _calcular_vinculos ends the run.
PrepararDados ==
    /\ pc = "preparar"
    /\ IF df_cid_bruto # None
       THEN /\ df_cid_filtrado' = IF unidade_selecionada = Todas THEN df_cid_bruto
                                  ELSE QueryUnidade(df_cid_bruto, unidade_selecionada)
            /\ grupo_principal' = IF unidade_selecionada = Todas THEN COL_UNIDADE ELSE "Equipe"
            /\ IF CalcularVinculos(df_cid_filtrado') = {}
               THEN /\ pc' = "excecao"
                    /\ UNCHANGED <<df_vinculos, df_dom_filtrado, df_prod_filtrado>>
               ELSE /\ df_vinculos' \in CalcularVinculos(df_cid_filtrado')
                    /\ pc' = "render"
                    /\ df_dom_filtrado' = IF df_dom_bruto # None THEN df_dom_bruto
                                          ELSE df_dom_filtrado
                    /\ df_prod_filtrado' =
                          IF df_prod_bruto = None THEN df_prod_filtrado
                          ELSE IF periodo_selecionado # None /\ Len(periodo_selecionado.datas) = 2
                          THEN FiltrarPeriodo(df_prod_bruto, periodo_selecionado.datas)
                          ELSE df_prod_bruto
       ELSE /\ UNCHANGED <<df_cid_filtrado, grupo_principal, df_vinculos>>
            /\ pc' = "render"
            /\ df_dom_filtrado' = IF df_dom_bruto # None THEN df_dom_bruto ELSE df_dom_filtrado
            /\ df_prod_filtrado' =
                  IF df_prod_bruto = None THEN df_prod_filtrado
                  ELSE IF periodo_selecionado # None /\ Len(periodo_selecionado.datas) = 2
                  THEN FiltrarPeriodo(df_prod_bruto, periodo_selecionado.datas)
                  ELSE df_prod_bruto
    /\ UNCHANGED <<sessao, locais, brutos, municipio, filtros, saida>>

\* render_dashboard_content() on the menu, and on a view whose report is
\* outside the model: nothing of the state changes.
RenderMenu ==
    /\ pc = "render"
    /\ view \notin {"tempo_cid", "cpf", "resumo", "producao", "tipo_atendimento"}
    /\ pc' = "done"
    /\ UNCHANGED <<sessao, locais, brutos, filtrados, municipio, filtros, saida>>

\* lines 568-573 and 584-589: the table handed to the crosstab and its group.
DfParaCrosstab ==
    IF unidade_selecionada # Todas /\ df_vinculos # None
    THEN [columns |-> Append(df_cid_filtrado.columns, "Equipe"),
          rows |-> MapRows(df_cid_filtrado.rows, LAMBDA r :
                      r @@ ("Equipe" :>
                          IF \E i \in 1..Len(df_vinculos.rows) :
                                Str(df_vinculos.rows[i].equipe_original) = r[COL_EQUIPE_COMPLETA]
                          THEN Str(df_vinculos.rows[
                                  CHOOSE i \in 1..Len(df_vinculos.rows) :
                                    /\ Str(df_vinculos.rows[i].equipe_original) = r[COL_EQUIPE_COMPLETA]
                                    /\ \A j \in (i + 1)..Len(df_vinculos.rows) :
                                          Str(df_vinculos.rows[j].equipe_original) # r[COL_EQUIPE_COMPLETA]
                                  ].equipe)
                          ELSE NaN))]
    ELSE df_cid_filtrado

GrupoCrosstab ==
    IF unidade_selecionada # Todas /\ df_vinculos # None THEN "Equipe" ELSE COL_UNIDADE

\* The body shared by _render_aba_tempo_cid and _render_aba_cpf.
RenderCrosstabCidadaos(col, ordem) ==
    /\ pc = "render"
    /\ IF df_cid_filtrado = None
       THEN UNCHANGED <<tab, perc_df>>
       ELSE /\ tab' \in GerarCrosstab(DfParaCrosstab, GrupoCrosstab, col, ordem)
            /\ perc_df' = PercDf(tab')
    /\ pc' = "done"
    /\ UNCHANGED <<sessao, locais, brutos, filtrados, municipio, filtros, mensagens, paineis>>

\* _render_aba_tempo_cid()
RenderAbaTempoCid ==
    /\ view = "tempo_cid"
    /\ RenderCrosstabCidadaos(COL_TEMPO_SEM_ATUALIZAR, ordem_tempo)

\* _render_aba_cpf()
RenderAbaCpf ==
    /\ view = "cpf"
    /\ RenderCrosstabCidadaos(COL_STATUS_DOC, ordem_cpf)

\* The steps of a script run on the menu page and the user's actions on the
\* controls, for the uploads of Lotes.
NextNucleo(Lotes) ==
    \/ EnviarArquivos(Lotes)
    \/ RemoverArquivos
    \/ SelecionarUnidade
    \/ IniciarControles
    \/ ProcessarArquivo
    \/ ConcluirControles
    \/ PrepararDados
    \/ RenderMenu

\* The same with the reports of Views.
NextWith(Lotes, Views) ==
    \/ NextNucleo(Lotes)
    \/ Navegar(Views)
    \/ RenderAbaTempoCid
    \/ RenderAbaCpf

\* get_status applied on its own to the arguments of ensaio.
AplicarGetStatus ==
    /\ ensaio # None
    /\ ensaio.result = None
    /\ ensaio' = [ensaio EXCEPT !.result =
                    [status |-> GetStatus(ensaio.args[1], ensaio.args[2], ensaio.args[3])]]
    /\ UNCHANGED <<files, view, w_unidade, w_periodo, w_prod, pc, locais, brutos, filtrados,
                   municipio, filtros, saida>>

\* _calcular_vinculos applied on its own to a citizens table of one group,
\* whose facility, composite team key and size are the arguments of ensaio.
AplicarCalcularVinculos ==
    /\ ensaio # None
    /\ ensaio.result = None
    /\ ensaio' = [ensaio EXCEPT !.result =
                    [tabelas |-> CalcularVinculos(
                        [columns |-> <<COL_UNIDADE, COL_EQUIPE_COMPLETA, COL_CIDADAO>>,
                         rows |-> <<[r |-> (COL_UNIDADE :> Str(ensaio.args[1]))
                                         @@ (COL_EQUIPE_COMPLETA :> Str(ensaio.args[2]))
                                         @@ (COL_CIDADAO :> Str(<<"X">>)),
                                     n |-> ensaio.args[3]]>>])]]
    /\ UNCHANGED <<files, view, w_unidade, w_periodo, w_prod, pc, locais, brutos, filtrados,
                   municipio, filtros, saida>>

\* The user picks options in the three selectboxes of the production report
\* (lines 631-633), shown when the filtered table has rows and the columns.
SelecionarFiltrosProducao(Filtros) ==
    /\ pc = "done"
    /\ view = "producao"
    /\ df_prod_filtrado # None
    /\ NRows(df_prod_filtrado) > 0
    /\ {"TOTAL GERAL", "ESTABELECIMENTO", "EQUIPE", "DESCRIÇÃO DO CBO"}
            \subseteq Range(df_prod_filtrado.columns)
    /\ \E f \in Filtros :
          /\ f # w_prod
          /\ f.unidade \in {Todas} \cup Unicos(df_prod_filtrado, "ESTABELECIMENTO")
          /\ f.equipe \in {Todas} \cup Unicos(df_prod_filtrado, "EQUIPE")
          /\ f.cargo \in {Todas} \cup Unicos(df_prod_filtrado, "DESCRIÇÃO DO CBO")
          /\ w_prod' = f
    /\ UNCHANGED <<files, view, w_unidade, w_periodo, ensaio>>
    /\ Construtor

\* The values of the three selectboxes in a run: a value that is no option of
\* the run is replaced by the first option.
FiltroEfetivo(df) ==
    [unidade |-> IF w_prod.unidade \in Unicos(df, "ESTABELECIMENTO")
                 THEN w_prod.unidade ELSE Todas,
     equipe |-> IF w_prod.equipe \in Unicos(df, "EQUIPE") THEN w_prod.equipe ELSE Todas,
     cargo |-> IF w_prod.cargo \in Unicos(df, "DESCRIÇÃO DO CBO") THEN w_prod.cargo ELSE Todas]

\* px.treemap of line 664 ends without exception: every row has its unit,
\* team and post (a missing value above a leaf is refused) and the rows of
\* every leaf have a positive sum (the sums are the weights of the colour).
TreemapSemExcecao(df) ==
    \A i \in 1..Len(df.rows) :
        /\ \A c \in {"ESTABELECIMENTO", "EQUIPE", "DESCRIÇÃO DO CBO"} : ~IsNaN(df.rows[i].r[c])
        /\ SumTotalGeral(SelectRows(df.rows, LAMBDA r :
                \A c \in {"ESTABELECIMENTO", "EQUIPE", "DESCRIÇÃO DO CBO", "PROFISSIONAL"} :
                    r[c] = df.rows[i].r[c])) > 0

\* _render_aba_producao_consolidada(), its two tabs.
RenderAbaProducaoConsolidada ==
    /\ pc = "render"
    /\ view = "producao"
    /\ IF df_prod_filtrado = None
       THEN /\ mensagens' = mensagens \cup {"producao_info"}
            /\ pc' = "done"
            /\ UNCHANGED producao
       ELSE IF NRows(df_prod_filtrado) = 0
       THEN /\ mensagens' = mensagens \cup {"producao_info"}
            /\ pc' = "done"
            /\ UNCHANGED producao
       ELSE IF "TOTAL GERAL" \notin Range(df_prod_filtrado.columns)
       THEN /\ mensagens' = mensagens \cup {"producao_sem_total_geral"}
            /\ pc' = "done"
            /\ UNCHANGED producao
       ELSE IF ~({"ESTABELECIMENTO", "EQUIPE", "DESCRIÇÃO DO CBO"}
                    \subseteq Range(df_prod_filtrado.columns))
       THEN /\ pc' = "excecao"
            /\ UNCHANGED <<mensagens, producao>>
       ELSE LET f == FiltroEfetivo(df_prod_filtrado)
                df_filt == FiltrarProducao(df_prod_filtrado, f.unidade, f.equipe, f.cargo)
            IN  IF NRows(df_filt) = 0
                THEN /\ mensagens' = mensagens \cup {"nenhum_dado"}
                     /\ pc' = "done"
                     /\ UNCHANGED producao
                ELSE IF "PROFISSIONAL" \notin Range(df_filt.columns)
                THEN /\ pc' = "excecao"
                     /\ UNCHANGED <<mensagens, producao>>
                ELSE IF ~TreemapSemExcecao(FillNaProfissional(df_filt))
                THEN /\ pc' = "excecao"
                     /\ UNCHANGED <<mensagens, producao>>
                ELSE /\ producao' \in PainelProducao(df_filt)
                     /\ pc' = "done"
                     /\ UNCHANGED mensagens
    /\ UNCHANGED <<sessao, locais, brutos, filtrados, municipio, filtros,
                   tab, perc_df, resumo, scorecard>>

\* _render_aba_tipo_atendimento_esf(): the figures and the scorecard are shown
\* before the other tabs are built.
RenderAbaTipoAtendimento ==
    /\ pc = "render"
    /\ view = "tipo_atendimento"
    /\ IF df_prod_filtrado = None
       THEN /\ mensagens' = mensagens \cup {"atendimento_info"}
            /\ pc' = "done"
            /\ UNCHANGED scorecard
       ELSE IF "TIPO DE ATENDIMENTO" \notin Range(df_prod_filtrado.columns)
       THEN /\ mensagens' = mensagens \cup {"atendimento_info"}
            /\ pc' = "done"
            /\ UNCHANGED scorecard
       ELSE IF "ESTABELECIMENTO" \notin Range(df_prod_filtrado.columns)
       THEN /\ pc' = "excecao"
            /\ UNCHANGED <<mensagens, scorecard>>
       ELSE /\ scorecard' \in PainelAtendimento(df_prod_filtrado)
            /\ pc' = IF AbasSemExcecao(df_prod_filtrado) THEN "done" ELSE "excecao"
            /\ UNCHANGED mensagens
    /\ UNCHANGED <<sessao, locais, brutos, filtrados, municipio, filtros,
                   tab, perc_df, resumo, producao>>

\* _render_aba_resumo(): the figures of the citizens, then those of the
\* production, which need the columns TOTAL GERAL and PROFISSIONAL.
RenderAbaResumo ==
    /\ pc = "render"
    /\ view = "resumo"
    /\ IF df_vinculos = None
       THEN /\ mensagens' = mensagens \cup {"resumo_info"}
            /\ pc' = "done"
            /\ UNCHANGED resumo
       ELSE IF /\ df_prod_filtrado # None
               /\ NRows(df_prod_filtrado) > 0
               /\ ~({"TOTAL GERAL", "PROFISSIONAL"} \subseteq Range(df_prod_filtrado.columns))
       THEN /\ resumo' \in PainelResumo(df_cid_filtrado, df_vinculos, None)
            /\ pc' = "excecao"
            /\ UNCHANGED mensagens
       ELSE /\ resumo' \in PainelResumo(df_cid_filtrado, df_vinculos, df_prod_filtrado)
            /\ pc' = "done"
            /\ UNCHANGED mensagens
    /\ UNCHANGED <<sessao, locais, brutos, filtrados, municipio, filtros,
                   tab, perc_df, producao, scorecard>>

\* The script run and the user's actions with the summary, production and
\* attendance reports.
NextRelatorios(Lotes, Views, Filtros) ==
    \/ NextNucleo(Lotes)
    \/ Navegar(Views)
    \/ SelecionarFiltrosProducao(Filtros)
    \/ RenderAbaResumo
    \/ RenderAbaProducaoConsolidada
    \/ RenderAbaTipoAtendimento

(***************************************************************************)
(* Inputs: the workbooks a user may upload, and the bounds of the model.   *)
(***************************************************************************)
\* The most blocks of rows in a sheet, files in an upload, and the largest
\* count or threshold handed to get_status on its own.
MaxBlocos == 2
MaxArquivos == 2
MaxBlocosCrosstab == 3
MaxN == 5
MaxDia == 3
MaxProf == 6
MaxTipos == 4
MaxPartes == 3

SeqsAte(S, k) == UNION {[1..m -> S] : m \in 0..k}

UBS_A == <<"UBS", " ", "A">>
UBS_B == <<"UBS", " ", "B">>
EQUIPE_1 == <<"EQUIPE", " ", "1">>
COM_CPF == <<"COM", " ", "CPF">>
SEM_CPF == <<"SEM", " ", "CPF">>
ATE_4_MESES == ordem_tempo[1]
MAIS_DE_2_ANOS == ordem_tempo[4]

\* One row of a citizens sheet.
Cidadao(unidade, nome, ine, status, tempo) ==
    (COL_STATUS_DOC :> status) @@ (COL_TEMPO_SEM_ATUALIZAR :> tempo)
    @@ (COL_UNIDADE :> unidade) @@ (COL_NOME_EQUIPE :> nome) @@ (COL_INE :> ine)
    @@ (COL_CIDADAO :> Str(<<"X">>))

Bloco(r, n) == [r |-> r, n |-> n]

\* A workbook with one sheet DETALHADO of citizens.
ArquivoCidadaos(token, rows) ==
    [name |-> <<token, "cidadaos.xlsx">>,
     sheets |-> <<[name |-> "DETALHADO", columns |-> ReqCidadaos, rows |-> rows]>>]

\* Team sizes around the thresholds of the registry: 1375 and 2063 are the
\* target and the hard limit of an EAP 20 team.
BlocosVinculos ==
    {Bloco(Cidadao(Str(u), Str(EQUIPE_1), Str(ine), Str(COM_CPF), Str(ATE_4_MESES)), n) :
        u \in {UBS_A, UBS_B}, ine \in {<<"0001234">>, <<"0000001">>}, n \in {1, 1375, 2063}}
    \cup {Bloco(Cidadao(Str(UBS_A), Num(101), Str(<<"0000001">>), Str(COM_CPF),
                        Str(ATE_4_MESES)), 1)}

LotesVinculos ==
    {<<ArquivoCidadaos(token, rows)>> :
        token \in {"macaíba", "relatorio"}, rows \in SeqsAte(BlocosVinculos, MaxBlocos)}

\* One upload per municipality of the registry, named after it, and three
\* more: names in lower case, with a trailing blank, and of no municipality.
LinhasRegistro ==
    <<Bloco(Cidadao(Str(UBS_A), Str(EQUIPE_1), Str(<<"0001234">>), Str(COM_CPF),
                    Str(ATE_4_MESES)), 1),
      Bloco(Cidadao(Str(UBS_A), Str(EQUIPE_1), Str(<<"0009999">>), Str(COM_CPF),
                    Str(ATE_4_MESES)), 2063),
      Bloco(Cidadao(Str(UBS_B), Str(EQUIPE_1), Str(<<"0000001">>), Str(COM_CPF),
                    Str(ATE_4_MESES)), 1)>>

LotesRegistro ==
    {<<ArquivoCidadaos(token, LinhasRegistro)>> :
        token \in Range(Municipios) \cup {"macaíba", "Macaíba ", "relatorio"}}

\* Citizens rows with each of the four identity fields missing in turn, with
\* a numeric INE, and with the two category fields missing.
CidadaoCompleto ==
    Cidadao(Str(UBS_A), Str(EQUIPE_1), Str(<<"0000001">>), Str(COM_CPF), Str(ATE_4_MESES))

BlocosIngestao ==
    {Bloco(CidadaoCompleto, 1),
     Bloco([CidadaoCompleto EXCEPT ![COL_INE] = Num(1234)], 2),
     Bloco([CidadaoCompleto EXCEPT ![COL_STATUS_DOC] = NaN,
                                   ![COL_TEMPO_SEM_ATUALIZAR] = NaN], 1),
     Bloco([CidadaoCompleto EXCEPT ![COL_UNIDADE] = NaN], 1),
     Bloco([CidadaoCompleto EXCEPT ![COL_NOME_EQUIPE] = NaN], 1),
     Bloco([CidadaoCompleto EXCEPT ![COL_INE] = NaN], 1),
     Bloco([CidadaoCompleto EXCEPT ![COL_CIDADAO] = NaN], 1),
     Bloco([CidadaoCompleto EXCEPT ![COL_CIDADAO] = NaN, ![COL_INE] = NaN], 1)}

LotesIngestao ==
    {<<ArquivoCidadaos("relatorio", rows)>> : rows \in SeqsAte(BlocosIngestao, MaxBlocos)}

\* Productivity rows dated on each day, with a text that is no date and
\* with no date.
LinhaProducao(data, total) ==
    ("EQUIPE" :> Str(EQUIPE_1)) @@ ("DATA" :> data) @@ ("TOTAL GERAL" :> Num(total))

BlocosPeriodo ==
    {Bloco(LinhaProducao(Date(d), 1), 1) : d \in 1..MaxDia}
        \cup {Bloco(LinhaProducao(Str(<<"sem data">>), 1), 2),
              Bloco(LinhaProducao(NaN, 1), 1)}

ArquivoProducao(rows) ==
    [name |-> <<"relatorio", "producao.xlsx">>,
     sheets |-> <<[name |-> "Plan1", columns |-> <<"EQUIPE", "DATA", "TOTAL GERAL">>,
                   rows |-> rows]>>]

LotesPeriodo ==
    {<<ArquivoProducao(rows)>> : rows \in SeqsAte(BlocosPeriodo, MaxBlocos)}
        \cup {<<ArquivoCidadaos("relatorio", <<Bloco(CidadaoCompleto, 1)>>), ArquivoProducao(<<b>>)>> :
                b \in BlocosPeriodo}

\* The dates the user can pick: ranges around the days of the rows, and a
\* first date alone.
PeriodosEnsaio ==
    {p \in (0..(MaxDia + 1)) \X (1..MaxDia) : p[1] <= p[2]}
        \cup {<<a>> : a \in {1, MaxDia}}

\* A row of a production sheet with the columns of the reports.
ColunasCompletas ==
    <<"ESTABELECIMENTO", "EQUIPE", "PROFISSIONAL", "DESCRIÇÃO DO CBO",
      "TIPO DE ATENDIMENTO", "TOTAL GERAL">>

LinhaCompleta(unidade, equipe, prof, tipo, total) ==
    ("ESTABELECIMENTO" :> Str(unidade)) @@ ("EQUIPE" :> Str(equipe))
        @@ ("PROFISSIONAL" :> prof) @@ ("DESCRIÇÃO DO CBO" :> Str(<<"X">>))
        @@ ("TIPO DE ATENDIMENTO" :> Str(tipo)) @@ ("TOTAL GERAL" :> Num(total))

ArquivoCompleto(rows) ==
    [name |-> <<"relatorio", "producao.xlsx">>,
     sheets |-> <<[name |-> "Plan1", columns |-> ColunasCompletas, rows |-> rows]>>]

\* The names "A", "AA", "AAA", ... in ascending order, and the teams of the
\* same names.
NomeA(i) == [j \in 1..i |-> "A"]
EquipeNome(i) == <<"EQUIPE", " ">> \o NomeA(i)

\* The five types of the dict of categories and a type that is no key of it.
TiposEnsaio ==
    <<(<<"CONSULTA AGENDADA">>), (<<"CONSULTA AGENDADA PROGRAMADA / CUIDADO CONTINUADO">>),
      (<<"CONSULTA NO DIA">>), (<<"ATENDIMENTO DE URGÊNCIA">>),
      (<<"ESCUTA INICIAL / ORIENTAÇÃO">>), (<<"VISITA">>)>>

\* One row of each type in each of two units.
BlocosAtendimento ==
    [i \in 1..(2 * Len(TiposEnsaio)) |->
        Bloco(LinhaCompleta(IF i <= Len(TiposEnsaio) THEN UBS_A ELSE UBS_B,
                            EquipeNome(1), Str(NomeA(1)),
                            TiposEnsaio[((i - 1) % Len(TiposEnsaio)) + 1], 1), 1)]

\* The blocks of the indices of S, in ascending order.
BlocosDe(S) ==
    [k \in 1..Cardinality(S) |->
        BlocosAtendimento[CHOOSE i \in S : Cardinality({j \in S : j < i}) = k - 1]]

\* Workbooks of up to MaxTipos pairs of unit and type.
ArquivosAtendimento ==
    {ArquivoCompleto(BlocosDe(S)) :
        S \in {T \in SUBSET (1..Len(BlocosAtendimento)) : T # {} /\ Cardinality(T) <= MaxTipos}}

\* Workbooks of up to MaxProf professionals, two to a team, with a total of
\* 1 or 2 each.
ArquivosRanking ==
    {ArquivoCompleto([i \in 1..Len(t) |->
            Bloco(LinhaCompleta(UBS_A, EquipeNome((i + 1) \div 2), Str(NomeA(i)),
                                TiposEnsaio[1], t[i]), 1)]) :
        t \in UNION {[1..k -> {1, 2}] : k \in 1..MaxProf}}

\* A workbook whose rows name no professional.
ArquivoSemProfissional ==
    ArquivoCompleto(<<Bloco(LinhaCompleta(UBS_A, EquipeNome(1), NaN, TiposEnsaio[1], 1), 2)>>)

\* Citizens of two teams of one unit, the second with stale registrations.
LinhasResumo ==
    <<Bloco(CidadaoCompleto, 2),
      Bloco(Cidadao(Str(UBS_A), Str(EQUIPE_1), Str(<<"0001234">>), Str(SEM_CPF),
                    Str(MAIS_DE_2_ANOS)), 1)>>

LotesRelatorios ==
    {<<f>> : f \in ArquivosAtendimento \cup ArquivosRanking \cup {ArquivoSemProfissional}}
        \cup {<<ArquivoCidadaos("relatorio", LinhasResumo)>>}
        \cup {<<ArquivoCidadaos("relatorio", LinhasResumo), f>> :
                f \in {ArquivoSemProfissional, ArquivoCompleto(BlocosDe({1, 9}))}}

ViewsRelatorios == {"menu", "resumo", "producao", "tipo_atendimento"}

\* The values of the selectboxes of the production report the user tries.
FiltrosEnsaio ==
    {SemFiltroProducao,
     [unidade |-> UBS_A, equipe |-> Todas, cargo |-> Todas],
     [unidade |-> Todas, equipe |-> EquipeNome(1), cargo |-> Todas]}

\* Citizens whose document status and recency are a category of the fixed
\* orders or an unknown one; the other blocks add a second team, a larger
\* group, missing cells and categories in lower case.
PerfisCrosstab ==
    {<<Str(COM_CPF), Str(ATE_4_MESES)>>, <<Str(<<"X">>), Str(<<"X">>)>>}

BlocosCrosstab ==
    {Bloco(Cidadao(Str(u), Str(EQUIPE_1), Str(<<"0000001">>), p[1], p[2]), 1) :
        u \in {UBS_A, UBS_B}, p \in PerfisCrosstab}
    \cup {Bloco(Cidadao(Str(UBS_A), Str(EQUIPE_1), Str(<<"0009999">>), Str(SEM_CPF),
                        Str(MAIS_DE_2_ANOS)), 1),
          Bloco(Cidadao(Str(UBS_A), Str(EQUIPE_1), Str(<<"0000001">>), Str(COM_CPF),
                        Str(ATE_4_MESES)), 2),
          Bloco(Cidadao(Str(UBS_A), Str(EQUIPE_1), Str(<<"0000001">>), NaN, NaN), 1),
          Bloco(Cidadao(Str(UBS_A), Str(EQUIPE_1), Str(<<"0000001">>),
                        Str(<<"com", " ", "cpf">>), Str(<<"Até", " ", "4", " ", "meses">>)), 1)}

LotesCrosstab ==
    {<<ArquivoCidadaos("relatorio", rows)>> : rows \in SeqsAte(BlocosCrosstab, MaxBlocosCrosstab)}

\* Workbooks of every kind, and files of none.
DomicilioRow(estab) ==
    (DOM_COL_UNIDADE :> estab) @@ ("INE" :> Num(1234))
    @@ (COL_TEMPO_SEM_ATUALIZAR :> Str(ATE_4_MESES)) @@ (COL_FAMILIA_VINCULADA :> Str(<<"SIM">>))

ProdRow == ("EQUIPE" :> Str(EQUIPE_1)) @@ ("DATA" :> Date(1)) @@ ("TOTAL GERAL" :> Num(2))

FolhaCidadaos ==
    [name |-> "DETALHADO", columns |-> ReqCidadaos,
     rows |-> <<Bloco(Cidadao(Str(UBS_A), Str(EQUIPE_1), Str(<<"0000001">>), Str(COM_CPF),
                              Str(ATE_4_MESES)), 1),
                Bloco(Cidadao(Str(UBS_B), Str(EQUIPE_1), Num(1234), Str(SEM_CPF),
                              Str(ATE_4_MESES)), 1)>>]

FolhaDomicilios(estab) ==
    [name |-> "DETALHADO", columns |-> ReqDomicilios, rows |-> <<Bloco(DomicilioRow(estab), 1)>>]

FolhaProducao ==
    [name |-> "Plan1", columns |-> <<"EQUIPE ", "DATA", "TOTAL GERAL">>,
     rows |-> <<Bloco(("EQUIPE " :> Str(EQUIPE_1)) @@ ("DATA" :> Date(1))
                      @@ ("TOTAL GERAL" :> Num(2)), 1)>>]

FolhaSemEquipe ==
    [name |-> "Plan1", columns |-> <<"DATA", "TOTAL GERAL">>,
     rows |-> <<Bloco(("DATA" :> Date(1)) @@ ("TOTAL GERAL" :> Num(2)), 1)>>]

\* A sheet DETALHADO with the columns of citizens, of households and EQUIPE.
FolhaMista ==
    [name |-> "DETALHADO",
     columns |-> ReqCidadaos \o <<DOM_COL_UNIDADE, COL_FAMILIA_VINCULADA, "EQUIPE">>,
     rows |-> <<Bloco(Cidadao(Str(UBS_A), Str(EQUIPE_1), Str(<<"0000001">>), Str(COM_CPF),
                              Str(ATE_4_MESES))
                      @@ DomicilioRow(Str(UBS_A)) @@ ("EQUIPE" :> Str(EQUIPE_1)), 1)>>]

\* Citizens without the column CIDADÃO, but with EQUIPE.
FolhaCidadaosIncompleta ==
    [name |-> "DETALHADO",
     columns |-> <<COL_STATUS_DOC, COL_TEMPO_SEM_ATUALIZAR, COL_UNIDADE, COL_NOME_EQUIPE,
                   COL_INE, "EQUIPE">>,
     rows |-> <<Bloco((COL_STATUS_DOC :> Str(COM_CPF))
                      @@ (COL_TEMPO_SEM_ATUALIZAR :> Str(ATE_4_MESES))
                      @@ (COL_UNIDADE :> Str(UBS_A)) @@ (COL_NOME_EQUIPE :> Str(EQUIPE_1))
                      @@ (COL_INE :> Num(1234)) @@ ("EQUIPE" :> Str(EQUIPE_1)), 1)>>]

\* A sheet DETALHADO of no kind: no parser's columns and no EQUIPE.
FolhaDesconhecida ==
    [name |-> "DETALHADO", columns |-> <<"DATA", "TOTAL GERAL">>,
     rows |-> <<Bloco(("DATA" :> Date(1)) @@ ("TOTAL GERAL" :> Num(2)), 1)>>]

\* A production sheet with other columns than FolhaProducao.
FolhaProducaoSemData ==
    [name |-> "Plan1", columns |-> <<"EQUIPE", "PROFISSIONAL", "TOTAL GERAL">>,
     rows |-> <<Bloco(("EQUIPE" :> Str(EQUIPE_1)) @@ ("PROFISSIONAL" :> Str(<<"A">>))
                      @@ ("TOTAL GERAL" :> Num(1)), 2)>>]

ArquivosRoteamento ==
    {[name |-> <<"relatorio", "a.xlsx">>, sheets |-> <<FolhaCidadaos>>],
     [name |-> <<"relatorio", "b.xlsx">>, sheets |-> <<FolhaDomicilios(Str(UBS_A))>>],
     [name |-> <<"relatorio", "c.xlsx">>, sheets |-> <<FolhaDomicilios(Num(101))>>],
     [name |-> <<"relatorio", "d.xlsx">>, sheets |-> <<FolhaProducao>>],
     [name |-> <<"relatorio", "e.xlsx">>, sheets |-> <<FolhaSemEquipe>>],
     [name |-> <<"relatorio", "f.xlsx">>, sheets |-> <<FolhaProducao, FolhaDomicilios(Str(UBS_A))>>],
     [name |-> <<"relatorio", "g.xlsx">>, sheets |-> <<FolhaMista>>],
     [name |-> <<"relatorio", "h.xlsx">>, sheets |-> <<FolhaCidadaosIncompleta>>],
     [name |-> <<"relatorio", "i.txt">>, sheets |-> <<>>],
     [name |-> <<"relatorio", "j.xlsx">>, sheets |-> <<FolhaDesconhecida>>],
     [name |-> <<"relatorio", "k.xlsx">>, sheets |-> <<FolhaProducaoSemData>>]}

LotesRoteamento == SeqsAte(ArquivosRoteamento, MaxArquivos)

\* The uploads of the whole application: up to MaxArquivos workbooks.
Lotes ==
    SeqsAte({[name |-> <<"macaíba", "a.xlsx">>, sheets |-> <<FolhaCidadaos>>],
             [name |-> <<"relatorio", "b.xlsx">>, sheets |-> <<FolhaDomicilios(Str(UBS_A))>>],
             [name |-> <<"valença", "d.xlsx">>, sheets |-> <<FolhaProducao>>],
             [name |-> <<"relatorio", "i.txt">>, sheets |-> <<>>]}, MaxArquivos)

Views == {"menu", "tempo_cid", "cpf"}

(***************************************************************************)
(* Specifications                                                          *)
(***************************************************************************)
Next == NextWith(Lotes, Views)
Spec == Init /\ [][Next]_vars

\* The classifier on teams of every size around the thresholds.
NextVinculos == NextNucleo(LotesVinculos)
SpecVinculos == Init /\ [][NextVinculos]_vars

\* Every municipality of the registry.
NextRegistro == NextNucleo(LotesRegistro)
SpecRegistro == Init /\ [][NextRegistro]_vars

\* The crosstab reports on sparse categories.
NextCrosstab == NextWith(LotesCrosstab, Views)
SpecCrosstab == Init /\ [][NextCrosstab]_vars

\* The routing of uploads of every kind.
NextRoteamento == NextNucleo(LotesRoteamento)
SpecRoteamento == Init /\ [][NextRoteamento]_vars

\* The ingestion of citizens rows with missing fields.
NextIngestao == NextNucleo(LotesIngestao)
SpecIngestao == Init /\ [][NextIngestao]_vars

\* The period filter on dated and undated productivity rows.
NextPeriodo ==
    \/ NextNucleo(LotesPeriodo)
    \/ SelecionarPeriodo(PeriodosEnsaio)
SpecPeriodo == Init /\ [][NextPeriodo]_vars

\* The summary, production and attendance reports.
NextProducao == NextRelatorios(LotesRelatorios, ViewsRelatorios, FiltrosEnsaio)
SpecProducao == Init /\ [][NextProducao]_vars

\* get_status on every count and pair of thresholds up to MaxN.
InitStatus ==
    /\ InitApp
    /\ ensaio \in {[args |-> <<c, t, h>>, result |-> None] : c, t, h \in 0..MaxN}
NextStatus == AplicarGetStatus
SpecStatus == InitStatus /\ [][NextStatus]_vars

\* Citizens rows whose text fields are in lower case or have a blank around
\* them, one field at a time, next to the row in upper case and trimmed.
BlocosNormalizacao ==
    {Bloco(CidadaoCompleto, 1),
     Bloco([CidadaoCompleto EXCEPT ![COL_STATUS_DOC] = Str(<<"com", " ", "cpf">>)], 1),
     Bloco([CidadaoCompleto EXCEPT ![COL_STATUS_DOC] = Str(COM_CPF \o <<" ">>)], 1),
     Bloco([CidadaoCompleto EXCEPT ![COL_TEMPO_SEM_ATUALIZAR] = Str(<<" ">> \o ATE_4_MESES)], 1),
     Bloco([CidadaoCompleto EXCEPT ![COL_UNIDADE] = Str(<<"ubs", " ", "A">>)], 1),
     Bloco([CidadaoCompleto EXCEPT ![COL_UNIDADE] = Str(UBS_A \o <<" ">>)], 1),
     Bloco([CidadaoCompleto EXCEPT ![COL_NOME_EQUIPE] = Str(EQUIPE_1 \o <<" ">>)], 1),
     Bloco([CidadaoCompleto EXCEPT ![COL_INE] = Str(<<" ", "0000001">>)], 1)}

LotesNormalizacao ==
    {<<ArquivoCidadaos("relatorio", rows)>> : rows \in SeqsAte(BlocosNormalizacao, MaxBlocos)}

\* The ingestion of citizens rows that differ in case and in blanks.
NextNormalizacao == NextNucleo(LotesNormalizacao)
SpecNormalizacao == Init /\ [][NextNormalizacao]_vars

\* A batch of the three kinds: citizens of two units, a household and dated
\* production rows of two units; and each of its files alone.
CidadaosQuadro ==
    ArquivoCidadaos("relatorio",
        <<Bloco(CidadaoCompleto, 2),
          Bloco(Cidadao(Str(UBS_B), Str(EQUIPE_1), Str(<<"0001234">>), Str(SEM_CPF),
                        Str(MAIS_DE_2_ANOS)), 1)>>)

DomiciliosQuadro ==
    [name |-> <<"relatorio", "b.xlsx">>, sheets |-> <<FolhaDomicilios(Str(UBS_A))>>]

ProducaoQuadro ==
    [name |-> <<"relatorio", "producao.xlsx">>,
     sheets |-> <<[name |-> "Plan1", columns |-> Append(ColunasCompletas, "DATA"),
                   rows |-> [d \in 1..MaxDia |->
                                Bloco(LinhaCompleta(IF d = 1 THEN UBS_A ELSE UBS_B, EquipeNome(1),
                                                    Str(NomeA(d)), TiposEnsaio[1], d)
                                      @@ ("DATA" :> Date(d)), 1)]]>>]

LotesQuadro ==
    {<<CidadaosQuadro, DomiciliosQuadro, ProducaoQuadro>>, <<CidadaosQuadro>>,
     <<DomiciliosQuadro>>, <<ProducaoQuadro>>}

ViewsQuadro ==
    {"menu", "resumo", "vinculo", "tempo_cid", "cpf", "domicilios", "producao",
     "tipo_atendimento", "consultas_esb"}

PeriodosQuadro == {<<1, 1>>, <<2, MaxDia>>, <<MaxDia>>}

\* Every report on a batch of the three kinds, under the two filters.
NextQuadro ==
    \/ NextRelatorios(LotesQuadro, ViewsQuadro, FiltrosEnsaio)
    \/ SelecionarPeriodo(PeriodosQuadro)
    \/ RenderAbaTempoCid
    \/ RenderAbaCpf
SpecQuadro == Init /\ [][NextQuadro]_vars

\* Production rows of two units, two teams and two posts, one of them the
\* community health agent, with a total of 1 or 2; workbooks of up to
\* MaxBlocos of them.
ACS == <<"AGENTE COMUNITÁRIO DE SAÚDE">>

BlocosDetalhes ==
    {Bloco([LinhaCompleta(u, EquipeNome(e), Str(NomeA(e)), TiposEnsaio[1], t)
                EXCEPT !["DESCRIÇÃO DO CBO"] = Str(cbo)], 1) :
        u \in {UBS_A, UBS_B}, e \in 1..2, t \in 1..2, cbo \in {<<"X">>, ACS}}

LotesDetalhes ==
    {<<ArquivoCompleto(rows)>> : rows \in SeqsAte(BlocosDetalhes, MaxBlocos)}
        \cup {<<ArquivoCidadaos("relatorio", LinhasResumo)>>}

\* The reports on the production of every post.
NextDetalhes == NextRelatorios(LotesDetalhes, ViewsRelatorios, FiltrosEnsaio)
SpecDetalhes == Init /\ [][NextDetalhes]_vars

\* Pieces of a composite team key: names, an INE, and a name with a hyphen
\* that is no separator.
PartesEnsaio == {<<"EQUIPE">>, EQUIPE_1, <<"0001234">>, <<"A", "-", "B">>}

\* ' - '.join(partes)
RECURSIVE Junta(_)
Junta(partes) ==
    IF Len(partes) = 1 THEN partes[1]
    ELSE partes[1] \o SEP \o Junta(Tail(partes))

\* The composite keys of one to MaxPartes pieces.
ChavesEnsaio == {Junta(ps) : ps \in SeqsAte(PartesEnsaio, MaxPartes) \ {<<>>}}

\* _calcular_vinculos on one team of every key, facility and size.
InitEquipe ==
    /\ InitApp
    /\ ensaio \in {[args |-> <<u, k, n>>, result |-> None] :
                        u \in {UBS_A, UBS_B}, k \in ChavesEnsaio, n \in {1, MaxN}}
NextEquipe == AplicarCalcularVinculos
SpecEquipe == InitEquipe /\ [][NextEquipe]_vars

(***************************************************************************)
(* Properties                                                              *)
(***************************************************************************)
\* The entry of municipality m in the registry as written in the source.
EntradaRegistro(m) ==
    PARAMETROS_POR_MUNICIPIO[CHOOSE k \in DOMAIN PARAMETROS_POR_MUNICIPIO : Rsplit[k][1] = m]

\* The INEs with an EAP override in municipality m.
INEsComOverride(m) ==
    IF "eap_por_ine" \in DOMAIN EntradaRegistro(m)
    THEN DOMAIN EntradaRegistro(m).eap_por_ine ELSE {}

\* INEs handed to the lookup: those of the registry, one of no team, the
\* empty text and a whole team name.
INEsEnsaio ==
    {<<"0001234">>, <<"0005678">>, <<"0004321">>, <<"0009999">>, <<"0000001">>, <<>>, EQUIPE_1}

\* C1: for the selected municipality M and every INE that is no key of M's
\* override map (an empty or absent map included), the lookup returns subtype
\* "ESF" with M's default target and hard cap, and so does every row of the
\* team table with such an INE.
C1_PadraoESF ==
    municipio_selecionado # SemMunicipio =>
        LET M == EntradaRegistro(municipio_selecionado)
            padrao == [tipo |-> "ESF", parametro |-> M.parametro_esf,
                       limite_maximo |-> M.limite_esf]
        IN  /\ \A ine \in INEsEnsaio \ INEsComOverride(municipio_selecionado) :
                  GetParametrosPorIne(ine) = padrao
            /\ df_vinculos # None =>
                  \A i \in 1..Len(df_vinculos.rows) :
                      df_vinculos.rows[i].ine \notin INEsComOverride(municipio_selecionado) =>
                          /\ df_vinculos.rows[i].tipo = "ESF"
                          /\ df_vinculos.rows[i].parametro = M.parametro_esf
                          /\ df_vinculos.rows[i].limite = M.limite_esf

\* A municipality whose registry entry has no override map, with a classified
\* team whose INE is an override key of another municipality.
C1_Witness ==
    /\ municipio_selecionado = "SANTA RITA"
    /\ "eap_por_ine" \notin DOMAIN EntradaRegistro(municipio_selecionado)
    /\ df_vinculos # None
    /\ \E i \in 1..Len(df_vinculos.rows) :
          /\ df_vinculos.rows[i].ine = <<"0009999">>
          /\ df_vinculos.rows[i].tipo = "ESF"
          /\ df_vinculos.rows[i].parametro = 3000
          /\ df_vinculos.rows[i].limite = 4500

\* The status the claim gives a count c against target t and hard cap h.
StatusEsperado(c, t, h) ==
    CASE c > h -> ACIMA_LIMITE
      [] c > t /\ ~(c > h) -> ACIMA_PARAMETRO
      [] OTHER -> DENTRO

\* C2: for the selected municipality M and every INE that is a key of M's
\* override map, the lookup returns the override's subtype, target and hard cap,
\* not the defaults of M, and the status of every such team is the one of its
\* count against the override's thresholds.
C2_OverridePrevalece ==
    municipio_selecionado # SemMunicipio =>
        LET M == EntradaRegistro(municipio_selecionado)
        IN  /\ \A ine \in INEsComOverride(municipio_selecionado) :
                  /\ GetParametrosPorIne(ine) = M.eap_por_ine[ine]
                  /\ GetParametrosPorIne(ine).parametro # M.parametro_esf
                  /\ GetParametrosPorIne(ine).limite_maximo # M.limite_esf
            /\ df_vinculos # None =>
                  \A i \in 1..Len(df_vinculos.rows) :
                      LET row == df_vinculos.rows[i]
                      IN  row.ine \in INEsComOverride(municipio_selecionado) =>
                              /\ row.tipo = M.eap_por_ine[row.ine].tipo
                              /\ row.parametro = M.eap_por_ine[row.ine].parametro
                              /\ row.limite = M.eap_por_ine[row.ine].limite_maximo
                              /\ row.status = StatusEsperado(row.n,
                                                 M.eap_por_ine[row.ine].parametro,
                                                 M.eap_por_ine[row.ine].limite_maximo)

\* A classified EAP team above its own hard limit whose count is within the
\* municipal default target.
C2_Witness ==
    /\ municipio_selecionado = "MACAÍBA"
    /\ df_vinculos # None
    /\ \E i \in 1..Len(df_vinculos.rows) :
          /\ df_vinculos.rows[i].ine = <<"0001234">>
          /\ df_vinculos.rows[i].tipo = "20"
          /\ df_vinculos.rows[i].n > df_vinculos.rows[i].limite
          /\ df_vinculos.rows[i].n <= parametro_oficial
          /\ df_vinculos.rows[i].limite < parametro_oficial
          /\ df_vinculos.rows[i].status = ACIMA_LIMITE

\* C3: for all counts c, targets t and hard caps h (t >= h included) get_status
\* gives exactly one status, hard limit first: above the hard limit iff c > h,
\* above the target iff c > t and not c > h, within the target otherwise; so
\* c = t < h is within the target, c = h > t is above the target, and
\* c = 5, t = 4, h = 4 is above the hard limit.
C3_StatusPorLimiares ==
    (ensaio # None /\ ensaio.result # None) =>
        LET c == ensaio.args[1]
            t == ensaio.args[2]
            h == ensaio.args[3]
            s == ensaio.result.status
        IN  /\ s \in {DENTRO, ACIMA_PARAMETRO, ACIMA_LIMITE}
            /\ s = ACIMA_LIMITE <=> c > h
            /\ s = ACIMA_PARAMETRO <=> (c > t /\ ~(c > h))
            /\ s = DENTRO <=> (~(c > t) /\ ~(c > h))
            /\ (t < h /\ c = t) => s = DENTRO
            /\ (t < h /\ c = h) => s = ACIMA_PARAMETRO
            /\ (c = 5 /\ t = 4 /\ h = 4) => s = ACIMA_LIMITE

\* get_status applied to 5 citizens with target 4 and hard cap 4.
C3_Witness ==
    /\ ensaio # None
    /\ ensaio.args = <<5, 4, 4>>
    /\ ensaio.result = [status |-> ACIMA_LIMITE]

\* The number of records of df whose facility and composite key are the cells u, e.
RegistrosDoPar(df, u, e) ==
    SumN(SelectRows(df.rows, LAMBDA r : r[COL_UNIDADE] = u /\ r[COL_EQUIPE_COMPLETA] = e))

\* C4: the team table has exactly one row per (facility, composite key) pair
\* of the filtered citizen records and none for another pair, the count of a
\* row is the number of records of its pair, and the counts sum to the number
\* of filtered citizen records.
C4_UmaLinhaPorGrupo ==
    (df_vinculos # None /\ df_cid_filtrado # None) =>
        /\ \A k \in 1..Len(df_cid_filtrado.rows) :
              \E i \in 1..Len(df_vinculos.rows) :
                  /\ Str(df_vinculos.rows[i].unidade) = df_cid_filtrado.rows[k].r[COL_UNIDADE]
                  /\ Str(df_vinculos.rows[i].equipe_original) =
                        df_cid_filtrado.rows[k].r[COL_EQUIPE_COMPLETA]
        /\ \A i, j \in 1..Len(df_vinculos.rows) :
              (/\ df_vinculos.rows[i].unidade = df_vinculos.rows[j].unidade
               /\ df_vinculos.rows[i].equipe_original = df_vinculos.rows[j].equipe_original)
              => i = j
        /\ \A i \in 1..Len(df_vinculos.rows) :
              /\ df_vinculos.rows[i].n > 0
              /\ df_vinculos.rows[i].n =
                    RegistrosDoPar(df_cid_filtrado, Str(df_vinculos.rows[i].unidade),
                                   Str(df_vinculos.rows[i].equipe_original))
        /\ SumSeq([i \in 1..Len(df_vinculos.rows) |-> df_vinculos.rows[i].n])
              = NRows(df_cid_filtrado)

\* The part of C4 about the records that have a composite key.
C4_GruposComChave ==
    (df_vinculos # None /\ df_cid_filtrado # None) =>
        /\ \A k \in 1..Len(df_cid_filtrado.rows) :
              IsStr(df_cid_filtrado.rows[k].r[COL_EQUIPE_COMPLETA]) =>
                  \E i \in 1..Len(df_vinculos.rows) :
                      /\ Str(df_vinculos.rows[i].unidade) = df_cid_filtrado.rows[k].r[COL_UNIDADE]
                      /\ Str(df_vinculos.rows[i].equipe_original) =
                            df_cid_filtrado.rows[k].r[COL_EQUIPE_COMPLETA]
        /\ \A i, j \in 1..Len(df_vinculos.rows) :
              (/\ df_vinculos.rows[i].unidade = df_vinculos.rows[j].unidade
               /\ df_vinculos.rows[i].equipe_original = df_vinculos.rows[j].equipe_original)
              => i = j
        /\ \A i \in 1..Len(df_vinculos.rows) :
              /\ df_vinculos.rows[i].n > 0
              /\ df_vinculos.rows[i].n =
                    RegistrosDoPar(df_cid_filtrado, Str(df_vinculos.rows[i].unidade),
                                   Str(df_vinculos.rows[i].equipe_original))
        /\ SumSeq([i \in 1..Len(df_vinculos.rows) |-> df_vinculos.rows[i].n])
              = SumN(SelectRows(df_cid_filtrado.rows,
                                LAMBDA r : IsStr(r[COL_EQUIPE_COMPLETA])))

\* The place of a row of the team table in the output of groupby, which is
\* the input of the sort.
PosicaoNoGroupby(row) ==
    CHOOSE p \in 1..Len(GroupKeys(df_cid_filtrado)) :
        GroupKeys(df_cid_filtrado)[p] = <<row.unidade, row.equipe_original>>

\* C5: the team table is in descending order of enrolled count, and rows with
\* equal counts are in the order in which they entered the sort.
C5_OrdenadoEstavel ==
    (df_vinculos # None /\ df_cid_filtrado # None) =>
        /\ \A i \in 1..(Len(df_vinculos.rows) - 1) :
              df_vinculos.rows[i].n >= df_vinculos.rows[i + 1].n
        /\ \A i, j \in 1..Len(df_vinculos.rows) :
              (i < j /\ df_vinculos.rows[i].n = df_vinculos.rows[j].n) =>
                  PosicaoNoGroupby(df_vinculos.rows[i]) < PosicaoNoGroupby(df_vinculos.rows[j])

\* The part of C5 about the counts alone.
C5_Decrescente ==
    df_vinculos # None =>
        \A i \in 1..(Len(df_vinculos.rows) - 1) :
            df_vinculos.rows[i].n >= df_vinculos.rows[i + 1].n

\* The category order and the category column of the report on screen.
OrdemDaVista == IF view = "tempo_cid" THEN ordem_tempo ELSE ordem_cpf
ColunaDaVista == IF view = "tempo_cid" THEN COL_TEMPO_SEM_ATUALIZAR ELSE COL_STATUS_DOC

\* Whether category cat occurs in the input of the crosstab.
Ocorre(cat) ==
    \E k \in 1..Len(DfParaCrosstab.rows) : DfParaCrosstab.rows[k].r[ColunaDaVista] = Str(cat)

\* The number of records of the input with group g and category cat.
RegistrosDaCelula(g, cat) ==
    SumN(SelectRows(DfParaCrosstab.rows,
                    LAMBDA r : r[GrupoCrosstab] = Str(g) /\ r[ColunaDaVista] = Str(cat)))

\* C6: the category columns of the counts table and of the percentage table
\* are exactly those of the category order, whatever the data, and a category
\* of the order that does not occur in the input is 0 in every row of both.
C6_ZeroFill ==
    tab # None =>
        /\ Range(tab.columns) \ {<<"Total">>} = Range(OrdemDaVista)
        /\ Len(tab.columns) = Len(OrdemDaVista) + 1
        /\ Range(perc_df.columns) = Range(OrdemDaVista)
        /\ Len(perc_df.columns) = Len(OrdemDaVista)
        /\ Len(perc_df.rows) = Len(tab.rows)
        /\ \A i \in 1..Len(tab.rows) :
              /\ Len(tab.rows[i].counts) = Len(OrdemDaVista)
              /\ Len(perc_df.rows[i].perc) = Len(OrdemDaVista)
              /\ \A j \in 1..Len(OrdemDaVista) :
                    ~Ocorre(tab.columns[j]) =>
                        /\ tab.rows[i].counts[j] = 0
                        /\ DOMAIN perc_df.rows[i].perc[j] = {"num", "den"}
                        /\ perc_df.rows[i].perc[j].num = 0

\* A report with rows where one category of the order is absent from the data
\* and the data has a category outside the order.
C6_Witness ==
    /\ tab # None
    /\ tab.rows # <<>>
    /\ \E j \in 1..Len(OrdemDaVista) :
          /\ ~Ocorre(OrdemDaVista[j])
          /\ tab.columns[j] = OrdemDaVista[j]
          /\ \A i \in 1..Len(tab.rows) : tab.rows[i].counts[j] = 0
    /\ \E j \in 1..Len(OrdemDaVista) : Ocorre(OrdemDaVista[j])
    /\ Ocorre(<<"X">>)

\* C7: the columns of the counts table are the categories in the order of the
\* category order and then Total; each count is the number of records of its
\* group and category, and Total is the sum of the counts of the row.
C7_OrdemETotal ==
    tab # None =>
        /\ tab.columns = OrdemDaVista \o << <<"Total">> >>
        /\ \A i \in 1..Len(tab.rows) :
              /\ \A j \in 1..Len(OrdemDaVista) :
                    tab.rows[i].counts[j] = RegistrosDaCelula(tab.rows[i].grupo, OrdemDaVista[j])
              /\ tab.rows[i].Total =
                    SumSeq([j \in 1..Len(OrdemDaVista) |->
                               RegistrosDaCelula(tab.rows[i].grupo, OrdemDaVista[j])])

\* A row with records in two categories: Total is more than either count.
C7_Witness ==
    /\ tab # None
    /\ \E i \in 1..Len(tab.rows) :
          /\ tab.rows[i].counts[1] = 2
          /\ tab.rows[i].counts[Len(OrdemDaVista)] = 1
          /\ tab.rows[i].Total = 3

\* C8: a cell of the percentage table is count / Total * 100; the cells of a
\* row with Total > 0 sum to 100; the cells of a row with Total = 0 are all 0,
\* none of them NaN or infinite.
C8_Percentuais ==
    tab # None =>
        /\ Len(perc_df.rows) = Len(tab.rows)
        /\ \A i \in 1..Len(tab.rows) :
              /\ perc_df.rows[i].grupo = tab.rows[i].grupo
              /\ \A j \in 1..Len(OrdemDaVista) :
                    /\ DOMAIN perc_df.rows[i].perc[j] = {"num", "den"}
                    /\ perc_df.rows[i].perc[j].den > 0
                    /\ tab.rows[i].Total > 0 =>
                          perc_df.rows[i].perc[j].num * tab.rows[i].Total
                              = tab.rows[i].counts[j] * 100 * perc_df.rows[i].perc[j].den
                    /\ tab.rows[i].Total = 0 => perc_df.rows[i].perc[j].num = 0
              /\ tab.rows[i].Total > 0 =>
                    SumSeq([j \in 1..Len(OrdemDaVista) |->
                               perc_df.rows[i].perc[j].num]) = 100 * tab.rows[i].Total

\* A report with a row of Total 0 and a row of Total 3 split 2 to 1.
C8_Witness ==
    /\ tab # None
    /\ \E i \in 1..Len(tab.rows) :
          /\ tab.rows[i].Total = 0
          /\ \A j \in 1..Len(OrdemDaVista) : perc_df.rows[i].perc[j].num = 0
    /\ \E i \in 1..Len(tab.rows) :
          /\ tab.rows[i].Total = 3
          /\ tab.rows[i].counts[1] = 2
          /\ perc_df.rows[i].perc[1].num * 3 = 200 * perc_df.rows[i].perc[1].den
          /\ perc_df.rows[i].perc[Len(OrdemDaVista)].num * 3
                = 100 * perc_df.rows[i].perc[Len(OrdemDaVista)].den

\* C9: the rows of the counts table are in descending order of Total, and the
\* rows of the percentage table are those of the counts table in its order.
C9_PorTotalDecrescente ==
    tab # None =>
        /\ \A i \in 1..(Len(tab.rows) - 1) : tab.rows[i].Total >= tab.rows[i + 1].Total
        /\ Len(perc_df.rows) = Len(tab.rows)
        /\ \A i \in 1..Len(tab.rows) : perc_df.rows[i].grupo = tab.rows[i].grupo

\* Two rows of different Totals whose labels are in the opposite order.
C9_Witness ==
    /\ tab # None
    /\ Len(tab.rows) = 2
    /\ tab.rows[1].Total > tab.rows[2].Total
    /\ StrLess(tab.rows[2].grupo, tab.rows[1].grupo)
    /\ perc_df.rows[1].grupo = tab.rows[1].grupo

\* What each list takes of file f under the routing policy: the table of the
\* first parser that accepts f, and of the production parser only with EQUIPE.
Toma(lista, f) ==
    CASE lista = "cidadaos" -> LerPlanilhaCidadaos(f)
      [] lista = "domicilios" ->
            IF LerPlanilhaCidadaos(f) = None THEN LerPlanilhaDomicilios(f) ELSE None
      [] lista = "produtividade" ->
            IF /\ LerPlanilhaCidadaos(f) = None
               /\ LerPlanilhaDomicilios(f) = None
               /\ LerPlanilhaProdutividade(f) # None
               /\ "EQUIPE" \in Range(LerPlanilhaProdutividade(f).columns)
            THEN LerPlanilhaProdutividade(f) ELSE None

\* The tables a list must hold after the first k files of fs.
RECURSIVE Aceitos(_, _, _)
Aceitos(fs, k, lista) ==
    IF k = 0 THEN <<>>
    ELSE IF Toma(lista, fs[k]) # None
    THEN Append(Aceitos(fs, k - 1, lista), Toma(lista, fs[k]))
    ELSE Aceitos(fs, k - 1, lista)

\* The parsers a file must be given to: each one only after those before it
\* in the order citizens, households, production have rejected the file.
ChamadasEsperadas(f) ==
    IF LerPlanilhaCidadaos(f) # None THEN <<"cidadaos">>
    ELSE IF LerPlanilhaDomicilios(f) # None THEN <<"cidadaos", "domicilios">>
    ELSE <<"cidadaos", "domicilios", "produtividade">>

\* C10: every file goes to the citizens parser, then to the households
\* parser, then to the production parser, and stops at the first one that
\* accepts it; a file adds a table to at most one of the three lists, and to
\* the production list only when its table has the column EQUIPE.
C10_Roteamento ==
    /\ Len(chamadas) = i_file - 1
    /\ \A k \in 1..(i_file - 1) : chamadas[k] = ChamadasEsperadas(files[k])
    /\ cid_list = Aceitos(files, i_file - 1, "cidadaos")
    /\ dom_list = Aceitos(files, i_file - 1, "domicilios")
    /\ prod_list = Aceitos(files, i_file - 1, "produtividade")
    /\ Len(cid_list) + Len(dom_list) + Len(prod_list) <= i_file - 1
    /\ \A k \in 1..Len(prod_list) : "EQUIPE" \in Range(prod_list[k].columns)

\* A batch of a file that all three parsers accept, taken by the first alone,
\* and a file that only the production parser reads, left out for want of
\* the column EQUIPE.
C10_Witness ==
    /\ i_file = 3
    /\ LerPlanilhaCidadaos(files[1]) # None
    /\ LerPlanilhaDomicilios(files[1]) # None
    /\ LerPlanilhaProdutividade(files[1]) # None
    /\ "EQUIPE" \in Range(LerPlanilhaProdutividade(files[1]).columns)
    /\ chamadas[1] = <<"cidadaos">>
    /\ LerPlanilhaProdutividade(files[2]) # None
    /\ "EQUIPE" \notin Range(LerPlanilhaProdutividade(files[2]).columns)
    /\ chamadas[2] = <<"cidadaos", "domicilios", "produtividade">>
    /\ Len(cid_list) = 1
    /\ dom_list = <<>>
    /\ prod_list = <<>>

\* File f has a sheet DETALHADO.
TemDetalhado(f) == \E i \in 1..Len(f.sheets) : f.sheets[i].name = "DETALHADO"

\* The columns of the sheet DETALHADO of file f.
ColunasDetalhado(f) ==
    {StripCol(c) : c \in Range(f.sheets[CHOOSE i \in 1..Len(f.sheets) :
                                            f.sheets[i].name = "DETALHADO"].columns)}

\* File f has a sheet DETALHADO that lacks a column of req.
FaltaColuna(f, req) ==
    /\ TemDetalhado(f)
    /\ ~(Range(req) \subseteq ColunasDetalhado(f))

\* C11: a file that lacks a required column of the citizens parser, or of the
\* households parser, gets no table from that parser and no error; the file
\* then goes to the next parser, and the run goes on to the end of the batch.
C11_ColunaAusente ==
    /\ \A k \in 1..(i_file - 1) :
          /\ FaltaColuna(files[k], ReqCidadaos) =>
                /\ LerPlanilhaCidadaos(files[k]) = None
                /\ ~ErroLerCidadaos(files[k])
                /\ Len(chamadas[k]) >= 2
                /\ chamadas[k][2] = "domicilios"
          /\ (FaltaColuna(files[k], ReqCidadaos) /\ FaltaColuna(files[k], ReqDomicilios)) =>
                /\ LerPlanilhaDomicilios(files[k]) = None
                /\ Len(chamadas[k]) = 3
                /\ chamadas[k][3] = "produtividade"
    /\ pc \notin {"start", "uploads"} => Len(chamadas) = Len(files)
    /\ (pc = "excecao") => df_cid_bruto # None

\* A batch whose first file is a citizens sheet without the column CIDADÃO:
\* it passes both parsers of DETALHADO without an error and is taken as
\* production; the second file is processed too.
C11_Witness ==
    /\ Len(files) = 2
    /\ pc = "done"
    /\ FaltaColuna(files[1], ReqCidadaos)
    /\ FaltaColuna(files[1], ReqDomicilios)
    /\ COL_UNIDADE \in ColunasDetalhado(files[1])
    /\ chamadas[1] = <<"cidadaos", "domicilios", "produtividade">>
    /\ Len(chamadas) = 2
    /\ Len(prod_list) >= 1
    /\ "erro_ler_cidadaos" \notin mensagens

\* File f is taken by no parser.
NaoReconhecido(f) ==
    /\ Toma("cidadaos", f) = None
    /\ Toma("domicilios", f) = None
    /\ Toma("produtividade", f) = None

\* The batch has been processed to its end.
LoteProcessado == files # <<>> /\ i_file = Len(files) + 1

\* C12: a file that no parser takes adds nothing to a list, the user is told
\* of it, and the files after it are processed.
C12_NaoReconhecidoInformado ==
    LoteProcessado =>
          /\ Len(chamadas) = Len(files)
          /\ Len(cid_list) + Len(dom_list) + Len(prod_list)
                = Cardinality({k \in 1..Len(files) : ~NaoReconhecido(files[k])})
          /\ (pc = "done" /\ \E k \in 1..Len(files) : NaoReconhecido(files[k])) =>
                mensagens \cap {"nenhuma_valida", "erro_ler_cidadaos"} # {}

\* The part of C12 about the lists and the rest of the batch.
C12_RestoProcessado ==
    LoteProcessado =>
        /\ Len(chamadas) = Len(files)
        /\ Len(cid_list) + Len(dom_list) + Len(prod_list)
              = Cardinality({k \in 1..Len(files) : ~NaoReconhecido(files[k])})

\* C19: when no file of the batch is recognized, the run ends with the text
\* that no valid sheet was recognized: no municipality is selected, no
\* parameter loaded, no table prepared, no report shown, no exception.
C19_SemDados ==
    (files # <<>> /\ \A k \in 1..Len(files) : NaoReconhecido(files[k])) =>
        /\ pc \in {"start", "uploads", "done"}
        /\ municipio_selecionado = SemMunicipio
        /\ parametro_oficial = 0 /\ limite_oficial = 0
        /\ parametros_municipio_atual = <<>>
        /\ df_cid_bruto = None /\ df_dom_bruto = None /\ df_prod_bruto = None
        /\ df_cid_filtrado = None /\ df_dom_filtrado = None /\ df_prod_filtrado = None
        /\ df_vinculos = None
        /\ tab = None /\ perc_df = None
        /\ resumo = None /\ producao = None /\ scorecard = None
        /\ pc = "done" => {"nenhuma_valida", "bem_vindo"} \subseteq mensagens

\* A batch of a readable sheet of no kind and an unreadable file, at the end
\* of its run.
C19_Witness ==
    /\ Len(files) = 2
    /\ TemDetalhado(files[1])
    /\ files[2].sheets = <<>>
    /\ NaoReconhecido(files[1]) /\ NaoReconhecido(files[2])
    /\ i_file = 3
    /\ pc = "done"
    /\ "nenhuma_valida" \in mensagens
    /\ municipio_selecionado = SemMunicipio

\* A row of a citizens sheet has the four identity fields.
QuatroPresentes(r) ==
    /\ ~IsNaN(r[COL_UNIDADE])
    /\ ~IsNaN(r[COL_NOME_EQUIPE])
    /\ ~IsNaN(r[COL_INE])
    /\ ~IsNaN(r[COL_CIDADAO])

\* The rows of the sheet DETALHADO of the only file of the batch.
LinhasEnviadas ==
    files[1].sheets[CHOOSE i \in 1..Len(files[1].sheets) :
                        files[1].sheets[i].name = "DETALHADO"].rows

\* C13: every record of the citizens table has a facility, a team name, an
\* INE and a citizen; the records are the rows of the sheet that have all
\* four, in their order and number: a row missing one is dropped and no
\* other row is.
C13_QuatroCampos ==
    (df_cid_bruto # None /\ Len(files) = 1) =>
        LET completos == SelectSeq(LinhasEnviadas, LAMBDA b : QuatroPresentes(b.r))
        IN  /\ \A i \in 1..Len(df_cid_bruto.rows) : QuatroPresentes(df_cid_bruto.rows[i].r)
            /\ Len(df_cid_bruto.rows) = Len(completos)
            /\ \A i \in 1..Len(completos) :
                  /\ df_cid_bruto.rows[i].n = completos[i].n
                  /\ df_cid_bruto.rows[i].r[COL_UNIDADE] = completos[i].r[COL_UNIDADE]
                  /\ df_cid_bruto.rows[i].r[COL_NOME_EQUIPE] = completos[i].r[COL_NOME_EQUIPE]
                  /\ df_cid_bruto.rows[i].r[COL_CIDADAO] = completos[i].r[COL_CIDADAO]
                  /\ IsStr(df_cid_bruto.rows[i].r[COL_INE])

\* A sheet of a row without citizen and INE and a row without the two
\* category fields: the first is dropped, the second is kept.
C13_Witness ==
    /\ df_cid_bruto # None
    /\ Len(files) = 1
    /\ Len(LinhasEnviadas) = 2
    /\ IsNaN(LinhasEnviadas[1].r[COL_CIDADAO])
    /\ QuatroPresentes(LinhasEnviadas[2].r)
    /\ IsNaN(LinhasEnviadas[2].r[COL_STATUS_DOC])
    /\ Len(df_cid_bruto.rows) = 1
    /\ IsNaN(df_cid_bruto.rows[1].r[COL_STATUS_DOC])
    /\ QuatroPresentes(df_cid_bruto.rows[1].r)

\* The names of the municipalities of the registry, in the order of its keys.
NomesRegistro == [i \in 1..Len(ChavesRegistro) |-> Rsplit[ChavesRegistro[i]][1]]

\* No file of the batch has a name whose first part is, accents and case
\* aside, the name of a municipality of the registry.
NenhumMunicipioNoLote ==
    \A i \in 1..Len(files) : \A j \in 1..Len(NomesRegistro) :
        NormalizeText(FileToken(files[i])) # NormalizeText(NomesRegistro[j])

\* C16: once the controls have resolved the municipality the run has not
\* aborted, the selected municipality is a member of the registry and the
\* active target and hard cap are its registry values; when no file name
\* resolves to a municipality, it is the first municipality of the registry.
C16_MunicipioPadrao ==
    /\ pc # "excecao"
    /\ municipio_selecionado # SemMunicipio =>
          /\ municipio_selecionado \in Range(NomesRegistro)
          /\ parametro_oficial = EntradaRegistro(municipio_selecionado).parametro_esf
          /\ limite_oficial = EntradaRegistro(municipio_selecionado).limite_esf
          /\ parametros_municipio_atual.MUNICIPIO = municipio_selecionado
          /\ NenhumMunicipioNoLote => municipio_selecionado = NomesRegistro[1]

\* A batch whose file name has no municipality, resolved to the first one
\* with its target of 2500 and cap of 3750.
C16_Witness ==
    /\ pc = "done"
    /\ NenhumMunicipioNoLote
    /\ files # <<>>
    /\ municipio_selecionado = "ALHANDRA"
    /\ parametro_oficial = 2500
    /\ limite_oficial = 3750

\* The raw table of a kind.
Bruto(lista) ==
    CASE lista = "cidadaos" -> df_cid_bruto
      [] lista = "domicilios" -> df_dom_bruto
      [] lista = "produtividade" -> df_prod_bruto

\* A record over the columns cols: a column it lacks is missing (NaN).
Estende(r, cols) == [c \in cols |-> IF c \in DOMAIN r THEN r[c] ELSE NaN]

\* How many times the record r occurs among the rows.
RECURSIVE Conta(_, _, _)
Conta(rows, r, cols) ==
    IF rows = <<>> THEN 0
    ELSE (IF Estende(Head(rows).r, cols) = r THEN Head(rows).n ELSE 0)
         + Conta(Tail(rows), r, cols)

\* How many times the record r occurs in the files of fs routed to the kind.
RECURSIVE ContaNoLote(_, _, _, _, _)
ContaNoLote(fs, k, lista, r, cols) ==
    IF k = 0 THEN 0
    ELSE (IF Toma(lista, fs[k]) # None THEN Conta(Toma(lista, fs[k]).rows, r, cols) ELSE 0)
         + ContaNoLote(fs, k - 1, lista, r, cols)

\* The columns and the records of the files of fs routed to the kind.
ColunasDoLote(fs, lista) ==
    UNION {Range(Toma(lista, fs[k]).columns) : k \in {j \in 1..Len(fs) : Toma(lista, fs[j]) # None}}

RegistrosDoLote(fs, lista) ==
    UNION {{Estende(Toma(lista, fs[k]).rows[i].r, ColunasDoLote(fs, lista)) :
                i \in 1..Len(Toma(lista, fs[k]).rows)} :
           k \in {j \in 1..Len(fs) : Toma(lista, fs[j]) # None}}

\* The orders of a batch.
Ordens(fs) ==
    {[i \in 1..Len(fs) |-> fs[p[i]]] :
        p \in {q \in [1..Len(fs) -> 1..Len(fs)] : \A i, j \in 1..Len(fs) : q[i] = q[j] => i = j}}

\* C20: after a batch, the raw table of each kind holds every record of
\* every file routed to the kind as many times as the files hold it and no
\* other record, and the batch in any other order gives the same records the
\* same number of times (hence the same number of rows).
C20_Concatenacao ==
    (LoteProcessado /\ pc # "uploads") =>
        \A lista \in {"cidadaos", "domicilios", "produtividade"} :
            IF Aceitos(files, Len(files), lista) = <<>> THEN Bruto(lista) = None
            ELSE LET cols == ColunasDoLote(files, lista)
                     regs == RegistrosDoLote(files, lista)
                 IN  /\ Bruto(lista) # None
                     /\ Range(Bruto(lista).columns) = cols
                     /\ \A i \in 1..Len(Bruto(lista).rows) : Bruto(lista).rows[i].r \in regs
                     /\ \A r \in regs :
                           Conta(Bruto(lista).rows, r, cols)
                              = ContaNoLote(files, Len(files), lista, r, cols)
                     /\ \A fs \in Ordens(files) :
                           LET outra == PdConcat(Aceitos(fs, Len(fs), lista))
                           IN  /\ Range(outra.columns) = cols
                               /\ NRows(outra) = NRows(Bruto(lista))
                               /\ \A r \in regs :
                                     Conta(outra.rows, r, cols)
                                        = Conta(Bruto(lista).rows, r, cols)

\* Two production workbooks with different columns in one batch: the table
\* has the rows of both.
C20_Witness ==
    /\ pc = "done"
    /\ Len(prod_list) = 2
    /\ Range(prod_list[1].columns) # Range(prod_list[2].columns)
    /\ df_prod_bruto # None
    /\ NRows(df_prod_bruto) = NRows(prod_list[1]) + NRows(prod_list[2])
    /\ NRows(prod_list[1]) > 0
    /\ NRows(prod_list[2]) > 0

\* The blocks of the raw productivity table dated from the first to the
\* second day of the range, both included.
NoPeriodo(datas) ==
    SelectSeq(df_prod_bruto.rows, LAMBDA b :
        /\ IsDate(b.r["DATA"])
        /\ datas[1] <= b.r["DATA"].date
        /\ b.r["DATA"].date <= datas[2])

\* The analysis of the run has been prepared on a productivity table.
ProducaoPreparada == pc \in {"render", "done"} /\ df_prod_bruto # None

\* C14: with a range of two dates selected, the filtered productivity table
\* has exactly the rows dated from start to end, both included, and no row
\* without a date; with no range, it has every row of the raw table, dated
\* or not.
C14_FiltroPeriodo ==
    ProducaoPreparada =>
        /\ df_prod_filtrado # None
        /\ IF periodo_selecionado # None /\ Len(periodo_selecionado.datas) = 2
           THEN /\ df_prod_filtrado.rows = NoPeriodo(periodo_selecionado.datas)
                /\ \A i \in 1..Len(df_prod_filtrado.rows) :
                      IsDate(df_prod_filtrado.rows[i].r["DATA"])
           ELSE df_prod_filtrado.rows = df_prod_bruto.rows

\* A table with a row on the first day of the range and a row without date,
\* filtered to the first; and a table filtered by no range, whole.
C14_Witness ==
    /\ ProducaoPreparada
    /\ periodo_selecionado # None
    /\ Len(periodo_selecionado.datas) = 2
    /\ periodo_selecionado.datas[1] < periodo_selecionado.datas[2]
    /\ Len(df_prod_bruto.rows) = 2
    /\ Len(df_prod_filtrado.rows) = 1
    /\ df_prod_filtrado.rows[1].r["DATA"] = Date(periodo_selecionado.datas[1])
    /\ \E i \in 1..2 : IsNaN(df_prod_bruto.rows[i].r["DATA"])

\* The rows of the raw productivity table whose date could not be parsed.
SemData == SelectSeq(df_prod_bruto.rows, LAMBDA b : ~IsDate(b.r["DATA"]))

\* A range is selected and the analysis is prepared on a table with a row
\* whose date could not be parsed.
DataInvalidaExcluida ==
    /\ ProducaoPreparada
    /\ "DATA" \in Range(df_prod_bruto.columns)
    /\ SemData # <<>>
    /\ periodo_selecionado # None
    /\ Len(periodo_selecionado.datas) = 2

\* A row whose date could not be parsed ends no run and is in no table
\* filtered by a range.
C15_NuncaFatal ==
    /\ pc # "excecao"
    /\ DataInvalidaExcluida =>
          \A i \in 1..Len(df_prod_filtrado.rows) : IsDate(df_prod_filtrado.rows[i].r["DATA"])

\* C15: a productivity row whose date cannot be parsed ends no run, is in no
\* table filtered by a range, and the page of the run shows a count of the
\* rows excluded.
C15_DataInvalidaContada ==
    /\ C15_NuncaFatal
    /\ (DataInvalidaExcluida /\ pc = "done") => "linhas_excluidas" \in mensagens

\* The rows of the filtered productivity table of a unit whose type is one
\* of tipos.
AtendimentosDe(unidade, tipos) ==
    SumN(SelectSeq(df_prod_filtrado.rows, LAMBDA b :
            /\ b.r["ESTABELECIMENTO"] = Str(unidade)
            /\ IsStr(b.r["TIPO DE ATENDIMENTO"])
            /\ b.r["TIPO DE ATENDIMENTO"].str \in tipos))

TiposProgramado ==
    {<<"CONSULTA AGENDADA">>, <<"CONSULTA AGENDADA PROGRAMADA / CUIDADO CONTINUADO">>}
TiposDemanda == {<<"CONSULTA NO DIA">>, <<"ATENDIMENTO DE URGÊNCIA">>}
TiposOutros == {<<"ESCUTA INICIAL / ORIENTAÇÃO">>}

\* A ratio is a number: neither undefined nor infinite.
Finito(x) == x # FloatNaN /\ x # FloatInf

\* The ratios whose denominator the code tests, and the shares of the
\* scorecard, are numbers and are 0 on a zero denominator.
C17_RazoesGuardadas ==
    /\ pc # "excecao" \/ view = "tipo_atendimento"
    /\ resumo # None =>
          /\ Finito(resumo.media_cidadaos_equipe)
          /\ Finito(resumo.perc_criticas)
          /\ resumo.total_equipes = 0 =>
                /\ resumo.media_cidadaos_equipe = Frac(0, 1)
                /\ resumo.perc_criticas = Frac(0, 1)
          /\ \A i \in 1..Len(resumo.top_desatualizados) :
                Finito(resumo.top_desatualizados[i].perc_desatualizados)
          /\ resumo.producao # None =>
                /\ Finito(resumo.producao.media)
                /\ resumo.producao.profissionais_unicos = 0 =>
                      resumo.producao.media = Frac(0, 1)
    /\ producao # None =>
          /\ Finito(producao.media_por_profissional)
          /\ producao.profissionais_unicos = 0 => producao.media_por_profissional = Frac(0, 1)
    /\ scorecard # None =>
          \A i \in 1..Len(scorecard.scorecard_display) :
              LET l == scorecard.scorecard_display[i]
                  total == AtendimentosDe(l.unidade,
                              TiposProgramado \cup TiposDemanda \cup TiposOutros)
              IN  /\ Finito(l.perc_programado)
                  /\ Finito(l.perc_demanda)
                  /\ total = 0 => l.perc_programado = Frac(0, 1) /\ l.perc_demanda = Frac(0, 1)

\* C17: every ratio of the reports is a number, and is 0 when its
\* denominator is zero: the averages per team and per professional, the
\* share of critical teams, the share of stale registrations of a team, and
\* for each unit of the scorecard the two shares and the index of scheduled
\* over spontaneous attendances.
C17_DenominadorZero ==
    /\ C17_RazoesGuardadas
    /\ (scorecard # None /\ pc = "done") =>
          \A i \in 1..Len(scorecard.scorecard_display) :
              LET l == scorecard.scorecard_display[i]
              IN  /\ Finito(l.indice)
                  /\ AtendimentosDe(l.unidade, TiposDemanda) = 0 => l.indice = Frac(0, 1)


\* The sums by professional or team that a ranking of the run is taken from,
\* in their order.
SomasDoRelatorio(col) ==
    LET f == FiltroEfetivo(df_prod_filtrado)
    IN  GroupbySum(FillNaProfissional(
            FiltrarProducao(df_prod_filtrado, f.unidade, f.equipe, f.cargo)), col)

\* The place of an entry in the sums.
LugarNasSomas(somas, e) == CHOOSE i \in 1..Len(somas) : somas[i] = e

\* ranking has the n entries of somas with the largest totals (all of them
\* when there are fewer), in descending order.
NMaiores(ranking, somas, n) ==
    /\ Len(ranking) = (IF Len(somas) < n THEN Len(somas) ELSE n)
    /\ \A i \in 1..Len(ranking) : ranking[i] \in Range(somas)
    /\ \A i, j \in 1..Len(ranking) : i # j => ranking[i] # ranking[j]
    /\ \A i \in 1..(Len(ranking) - 1) : ranking[i].total >= ranking[i + 1].total
    /\ \A e \in Range(somas) \ Range(ranking) :
          \A i \in 1..Len(ranking) : e.total <= ranking[i].total

\* Tied entries of ranking are in the order of somas, and an entry left out
\* that is tied with one of the ranking comes after it in somas.
EmpatesNaOrdem(ranking, somas) ==
    /\ \A i, j \in 1..Len(ranking) :
          (i < j /\ ranking[i].total = ranking[j].total) =>
              LugarNasSomas(somas, ranking[i]) < LugarNasSomas(somas, ranking[j])
    /\ \A e \in Range(somas) \ Range(ranking) :
          \A i \in 1..Len(ranking) :
              e.total = ranking[i].total =>
                  LugarNasSomas(somas, ranking[i]) < LugarNasSomas(somas, e)

\* The two rankings have the five largest sums in descending order; with
\* more than five entries to rank, ties are in their original order.
C18_CincoMaiores ==
    producao # None =>
        /\ NMaiores(producao.top_5_profissionais, SomasDoRelatorio("PROFISSIONAL"), 5)
        /\ NMaiores(producao.top_5_equipes, SomasDoRelatorio("EQUIPE"), 5)
        /\ Len(SomasDoRelatorio("PROFISSIONAL")) > 5 =>
              EmpatesNaOrdem(producao.top_5_profissionais, SomasDoRelatorio("PROFISSIONAL"))
        /\ Len(SomasDoRelatorio("EQUIPE")) > 5 =>
              EmpatesNaOrdem(producao.top_5_equipes, SomasDoRelatorio("EQUIPE"))

\* C18: the ranking of professionals and the ranking of teams have the five
\* largest sums of TOTAL GERAL in descending order, and entries with equal
\* sums keep their original relative order, at the cut-off too.
C18_RankingEstavel ==
    producao # None =>
        /\ NMaiores(producao.top_5_profissionais, SomasDoRelatorio("PROFISSIONAL"), 5)
        /\ NMaiores(producao.top_5_equipes, SomasDoRelatorio("EQUIPE"), 5)
        /\ EmpatesNaOrdem(producao.top_5_profissionais, SomasDoRelatorio("PROFISSIONAL"))
        /\ EmpatesNaOrdem(producao.top_5_equipes, SomasDoRelatorio("EQUIPE"))

\* The citizen records of the raw table of the selected facility: all of
\* them when the filter is 'Todas'.
RegistrosDoFiltro ==
    SelectSeq(df_cid_bruto.rows, LAMBDA b :
        unidade_selecionada = Todas \/ b.r[COL_UNIDADE] = Str(unidade_selecionada))

\* The pairs of facility and composite team key of those records.
ParesDoFiltro ==
    {<<RegistrosDoFiltro[i].r[COL_UNIDADE].str, RegistrosDoFiltro[i].r[COL_EQUIPE_COMPLETA].str>> :
        i \in {j \in 1..Len(RegistrosDoFiltro) :
                /\ IsStr(RegistrosDoFiltro[j].r[COL_UNIDADE])
                /\ IsStr(RegistrosDoFiltro[j].r[COL_EQUIPE_COMPLETA])}}

\* The analysis of the run has been prepared on a citizens table.
CidadaosPreparados == pc \in {"render", "done"} /\ df_cid_bruto # None

\* C21: once the analysis is prepared, the filtered citizens are the records
\* of the selected facility (all with 'Todas'), the team table has one row
\* for each pair of facility and team of those records and no other row, each
\* with the count and the status of those records, and the grouping
\* dimension is the facility with 'Todas' and the team otherwise.
C21_TabelaRecalculada ==
    CidadaosPreparados =>
        /\ df_cid_filtrado.rows = RegistrosDoFiltro
        /\ df_vinculos # None
        /\ {<<df_vinculos.rows[i].unidade, df_vinculos.rows[i].equipe_original>> :
                i \in 1..Len(df_vinculos.rows)} = ParesDoFiltro
        /\ Len(df_vinculos.rows) = Cardinality(ParesDoFiltro)
        /\ \A i \in 1..Len(df_vinculos.rows) :
              LET row == df_vinculos.rows[i]
              IN  /\ unidade_selecionada # Todas => row.unidade = unidade_selecionada
                  /\ row.n = SumN(SelectSeq(RegistrosDoFiltro, LAMBDA b :
                                    /\ b.r[COL_UNIDADE] = Str(row.unidade)
                                    /\ b.r[COL_EQUIPE_COMPLETA] = Str(row.equipe_original)))
                  /\ row.status = StatusEsperado(row.n, GetParametrosPorIne(row.ine).parametro,
                                                 GetParametrosPorIne(row.ine).limite_maximo)
        /\ grupo_principal = (IF unidade_selecionada = Todas THEN COL_UNIDADE ELSE "Equipe")

\* The raw table has teams of two facilities, the second is selected and the
\* team table has its team alone.
C21_Witness ==
    /\ CidadaosPreparados
    /\ unidade_selecionada = UBS_B
    /\ \E i \in 1..Len(df_cid_bruto.rows) : df_cid_bruto.rows[i].r[COL_UNIDADE] = Str(UBS_A)
    /\ Len(df_vinculos.rows) = 1
    /\ df_vinculos.rows[1].unidade = UBS_B
    /\ grupo_principal = "Equipe"

\* The text of s after its last ' - ', and s itself when it has none.
DepoisDoUltimoSeparador(s) ==
    LET pos == {i \in 1..(Len(s) - Len(SEP) + 1) : SubSeq(s, i, i + Len(SEP) - 1) = SEP}
    IN  IF pos = {} THEN s
        ELSE LET u == CHOOSE i \in pos : \A j \in pos : j <= i
             IN  SubSeq(s, u + Len(SEP), Len(s))

\* The classifier has been applied to the team of ensaio.
EquipeClassificada == ensaio # None /\ ensaio.result # None

\* C22: the classifier applied to a team of any composite key gives a table
\* (it does not raise), and the INE of the team's row is the text of the key
\* after its last ' - ', the whole key when it has no ' - '.
C22_TokenINE ==
    EquipeClassificada =>
        /\ ensaio.result.tabelas # {}
        /\ \A t \in ensaio.result.tabelas :
              /\ Len(t.rows) = 1
              /\ t.rows[1].equipe_original = ensaio.args[2]
              /\ t.rows[1].ine = DepoisDoUltimoSeparador(ensaio.args[2])

\* A key with no separator has been classified, and its token is the key.
C22_Witness ==
    /\ EquipeClassificada
    /\ ensaio.args[2] = EQUIPE_1
    /\ \E t \in ensaio.result.tabelas : t.rows[1].ine = EQUIPE_1 /\ t.rows[1].n = ensaio.args[3]

\* A key with two separators has been classified on its last piece.
C22_DoisSeparadores ==
    /\ EquipeClassificada
    /\ ensaio.args[2] = <<"EQUIPE">> \o SEP \o <<"A", "-", "B">> \o SEP \o <<"0001234">>
    /\ \E t \in ensaio.result.tabelas : t.rows[1].ine = <<"0001234">>

\* The label "<sigla> - <facility> - <INE>" of a row of the team table.
Rotulo(sigla, row) == sigla \o SEP \o row.unidade \o SEP \o row.ine

\* C23: the display label of every row of the team table is
\* "EAP <subtype> - <facility> - <INE>" when the subtype of the row is "20"
\* or "30", and "ESF - <facility> - <INE>" when it is any other; so a label
\* begins with EAP exactly for the two subtypes.
C23_RotuloDeExibicao ==
    df_vinculos # None =>
        \A i \in 1..Len(df_vinculos.rows) :
            LET row == df_vinculos.rows[i]
            IN  /\ row.tipo \in {"20", "30"} => row.equipe = Rotulo(<<"EAP", " ", row.tipo>>, row)
                /\ row.tipo \notin {"20", "30"} => row.equipe = Rotulo(<<"ESF">>, row)
                /\ (Head(row.equipe) = "EAP") <=> (row.tipo \in {"20", "30"})

\* A team table with a team of subtype "30" labelled EAP 30 and a team of the
\* default subtype labelled ESF.
C23_Witness ==
    /\ df_vinculos # None
    /\ \E i, j \in 1..Len(df_vinculos.rows) :
          /\ df_vinculos.rows[i].tipo = "30"
          /\ df_vinculos.rows[i].equipe =
                <<"EAP", " ", "30">> \o SEP \o UBS_A \o SEP \o <<"0009999">>
          /\ df_vinculos.rows[j].tipo = "ESF"
          /\ df_vinculos.rows[j].equipe = <<"ESF">> \o SEP \o UBS_B \o SEP \o <<"0000001">>

\* The text fields of a citizens record that the model's inputs vary.
CamposDeTexto == {COL_STATUS_DOC, COL_TEMPO_SEM_ATUALIZAR, COL_UNIDADE, COL_NOME_EQUIPE}

\* A text is in upper case with no blank around it.
Normalizado(s) == s = Upper(Strip(s))

\* The composite key of a citizens record is its trimmed team name, ' - ' and
\* its INE.
ChaveComposta(r) ==
    r[COL_EQUIPE_COMPLETA] = Str(Strip(r[COL_NOME_EQUIPE].str) \o SEP \o r[COL_INE].str)

\* What the parser does normalize: in every ingested citizens record the document status and the
\* recency bucket are in upper case, the INE is trimmed and the composite key
\* is the trimmed team name + ' - ' + INE.
C24_MaiusculasEChave ==
    df_cid_bruto # None =>
        \A i \in 1..Len(df_cid_bruto.rows) :
            LET r == df_cid_bruto.rows[i].r
            IN  /\ \A c \in {COL_STATUS_DOC, COL_TEMPO_SEM_ATUALIZAR} :
                      IsStr(r[c]) => r[c].str = Upper(r[c].str)
                /\ r[COL_INE].str = Strip(r[COL_INE].str)
                /\ IsStr(r[COL_NOME_EQUIPE]) => ChaveComposta(r)

\* C24: in every ingested citizens record the document status, the recency
\* bucket, the facility and the team name are in upper case with no leading
\* or trailing blank, and the composite key is the trimmed team name + ' - '
\* + INE.
C24_CamposNormalizados ==
    df_cid_bruto # None =>
        \A i \in 1..Len(df_cid_bruto.rows) :
            LET r == df_cid_bruto.rows[i].r
            IN  /\ \A c \in CamposDeTexto : IsStr(r[c]) => Normalizado(r[c].str)
                /\ IsStr(r[COL_NOME_EQUIPE]) => ChaveComposta(r)

\* Two records whose facilities differ only in case are two teams of the
\* team table.
C24_GruposSeparados ==
    /\ df_vinculos # None
    /\ Len(df_vinculos.rows) = 2
    /\ \E i, j \in 1..2 :
          /\ df_vinculos.rows[i].unidade = UBS_A
          /\ df_vinculos.rows[j].unidade = <<"ubs", " ", "A">>
          /\ df_vinculos.rows[i].equipe_original = df_vinculos.rows[j].equipe_original

\* The municipality of the run is one of the registry and its target, hard
\* cap and override map are the ones of its entry.
ParametrosCarregados ==
    /\ municipio_selecionado # SemMunicipio
    /\ \E m \in Range(ChavesRegistro) :
          /\ Rsplit[m][1] = municipio_selecionado
          /\ parametro_oficial = PARAMETROS_POR_MUNICIPIO[m].parametro_esf
          /\ limite_oficial = PARAMETROS_POR_MUNICIPIO[m].limite_esf
    /\ parametro_oficial > 0
    /\ limite_oficial > 0
    /\ DOMAIN parametros_municipio_atual # {}
    /\ "EAP_POR_INE" \in DOMAIN parametros_municipio_atual

\* C27: every step in which _preparar_dados_para_analise classifies the teams
\* of a citizens table starts in a state where render_controls has selected
\* the municipality and loaded its parameters, and no row of the resulting
\* table has the thresholds 0 of the constructor.
C27_ClassificaDepoisDosParametros ==
    [][(pc = "preparar" /\ df_cid_bruto # None /\ pc' # pc) =>
          /\ ParametrosCarregados
          /\ df_vinculos' # None =>
                \A i \in 1..Len(df_vinculos'.rows) :
                    /\ df_vinculos'.rows[i].parametro > 0
                    /\ df_vinculos'.rows[i].limite > 0
                    /\ df_vinculos'.rows[i].tipo = "ESF" =>
                          /\ df_vinculos'.rows[i].parametro = parametro_oficial
                          /\ df_vinculos'.rows[i].limite = limite_oficial]_vars

\* The teams of an upload of ALHANDRA have been classified, one of them
\* against the default thresholds of the municipality.
C27_Witness ==
    /\ pc = "render"
    /\ df_vinculos # None
    /\ ParametrosCarregados
    /\ municipio_selecionado = "ALHANDRA"
    /\ \E i \in 1..Len(df_vinculos.rows) :
          /\ df_vinculos.rows[i].tipo = "ESF"
          /\ df_vinculos.rows[i].parametro = 2500
          /\ df_vinculos.rows[i].limite = 3750

\* The records of the input of the crosstab of group g whose category is a
\* text of the category order (naOrdem) or a text outside it.
RegistrosDoGrupo(g, naOrdem) ==
    SumN(SelectRows(DfParaCrosstab.rows, LAMBDA r :
            /\ r[GrupoCrosstab] = Str(g)
            /\ IsStr(r[ColunaDaVista])
            /\ (r[ColunaDaVista].str \in Range(OrdemDaVista)) = naOrdem))

\* The groups of the input of the crosstab with a record whose category is a
\* text.
GruposComCategoria ==
    {DfParaCrosstab.rows[k].r[GrupoCrosstab].str :
        k \in {m \in 1..Len(DfParaCrosstab.rows) :
                /\ IsStr(DfParaCrosstab.rows[m].r[GrupoCrosstab])
                /\ IsStr(DfParaCrosstab.rows[m].r[ColunaDaVista])}}

\* C28: a record whose category is outside the category order adds to no
\* category column and not to Total, which is the number of records of the
\* group with a category of the order; a group whose records all have a
\* category outside the order is a row of the table, with Total 0 and 0% in
\* every category.
C28_CategoriaForaDaOrdem ==
    tab # None =>
        /\ {tab.rows[i].grupo : i \in 1..Len(tab.rows)} = GruposComCategoria
        /\ \A i \in 1..Len(tab.rows) :
              /\ tab.rows[i].Total = RegistrosDoGrupo(tab.rows[i].grupo, TRUE)
              /\ SumSeq(tab.rows[i].counts) = RegistrosDoGrupo(tab.rows[i].grupo, TRUE)
              /\ RegistrosDoGrupo(tab.rows[i].grupo, TRUE) = 0 =>
                    /\ tab.rows[i].Total = 0
                    /\ \A j \in 1..Len(OrdemDaVista) :
                          /\ tab.rows[i].counts[j] = 0
                          /\ perc_df.rows[i].perc[j] = Frac(0, 1)

\* A group whose only record has an unknown category is a row of Total 0 and
\* 0%, next to a group of Total 1 that has a record of an unknown category
\* too.
C28_Witness ==
    /\ tab # None
    /\ \E i, k \in 1..Len(tab.rows) :
          /\ RegistrosDoGrupo(tab.rows[i].grupo, FALSE) = 1
          /\ RegistrosDoGrupo(tab.rows[i].grupo, TRUE) = 0
          /\ tab.rows[i].Total = 0
          /\ \A j \in 1..Len(OrdemDaVista) : perc_df.rows[i].perc[j] = Frac(0, 1)
          /\ RegistrosDoGrupo(tab.rows[k].grupo, FALSE) = 1
          /\ tab.rows[k].Total = 1

\* The raw table of a kind as _processar_uploads builds it from the batch.
BrutoDoLote(lista) ==
    IF Aceitos(files, Len(files), lista) = <<>> THEN None
    ELSE PdConcat(Aceitos(files, Len(files), lista))

\* The controls of the run have been rendered to their end.
ControlesConcluidos == LoteProcessado /\ pc \in {"preparar", "render", "done", "excecao"}

\* C26: from the end of render_controls to the end of the run, whatever the
\* filters and the report, the raw citizens, households and productivity
\* tables are the tables built from the batch: the preparation and the
\* reports change none of them, with the filter 'Todas' too, where the
\* filtered citizens table is the raw one.
C26_BrutosIntactos ==
    ControlesConcluidos =>
        /\ \A lista \in {"cidadaos", "domicilios", "produtividade"} :
              Bruto(lista) = BrutoDoLote(lista)
        /\ (pc \in {"render", "done"} /\ df_cid_bruto # None /\ unidade_selecionada = Todas) =>
              df_cid_filtrado = df_cid_bruto

\* A report on the citizens of one unit and a report on the production of a
\* period have been rendered on the batch of the three kinds.
C26_Witness ==
    /\ pc = "done"
    /\ Len(files) = 3
    /\ df_cid_bruto # None /\ df_dom_bruto # None /\ df_prod_bruto # None
    /\ unidade_selecionada = UBS_B
    /\ periodo_selecionado = [datas |-> <<1, 1>>]
    /\ NRows(df_cid_filtrado) < NRows(df_cid_bruto)
    /\ NRows(df_prod_filtrado) < NRows(df_prod_bruto)
    /\ view = "producao"
    /\ producao # None

\* The table the production report is drawn from: df_filt of the values of
\* the three selectboxes.
ProducaoFiltrada ==
    FiltrarProducao(df_prod_filtrado, FiltroEfetivo(df_prod_filtrado).unidade,
                    FiltroEfetivo(df_prod_filtrado).equipe, FiltroEfetivo(df_prod_filtrado).cargo)

\* The sum of TOTAL GERAL over the filtered records whose fields of campos
\* have the values of chaves.
SomaSob(campos, chaves) ==
    SumTotalGeral(SelectRows(ProducaoFiltrada.rows, LAMBDA r :
        \A k \in 1..Len(campos) : r[campos[k]] = Str(chaves[k])))

\* The sum of the totals of a series.
RECURSIVE SomaDosTotais(_)
SomaDosTotais(s) == IF s = <<>> THEN 0 ELSE Head(s).total + SomaDosTotais(Tail(s))

\* What holds of the drill-down: the total of every post of a team and of
\* every professional of a post is the sum of TOTAL GERAL over the filtered
\* records under it, and the posts of a unit sum to all its records.
C25_NiveisInferiores ==
    producao # None =>
        \A i \in 1..Len(producao.detalhes) :
            LET u == producao.detalhes[i]
            IN  /\ SomaDosTotais(u.cargos) = SomaSob(<<"ESTABELECIMENTO">>, <<u.unidade>>)
                /\ \A j \in 1..Len(u.equipes) : \A k \in 1..Len(u.equipes[j].cargos) :
                      LET e == u.equipes[j]
                          c == e.cargos[k]
                      IN  /\ c.total = SomaSob(<<"ESTABELECIMENTO", "EQUIPE", "DESCRIÇÃO DO CBO">>,
                                               <<u.unidade, e.equipe, c.cbo>>)
                          /\ SomaDosTotais(c.profs) = c.total
                          /\ \A p \in 1..Len(c.profs) :
                                c.profs[p].total =
                                    SomaSob(<<"ESTABELECIMENTO", "EQUIPE", "DESCRIÇÃO DO CBO",
                                              "PROFISSIONAL">>,
                                            <<u.unidade, e.equipe, c.cbo, c.profs[p].chave>>)

\* C25: in the drill-down of the production report the value of every node is
\* the sum of TOTAL GERAL over the filtered records under it; the total of
\* every unit is the sum over all the records of the unit and is the sum of
\* the totals of its posts.
C25_TotalDaUnidade ==
    /\ C25_NiveisInferiores
    /\ producao # None =>
          \A i \in 1..Len(producao.detalhes) :
              /\ producao.detalhes[i].total_unidade
                    = SomaSob(<<"ESTABELECIMENTO">>, <<producao.detalhes[i].unidade>>)
              /\ producao.detalhes[i].total_unidade = SomaDosTotais(producao.detalhes[i].cargos)
====
